---- MODULE Spec2Model ----
(***************************************************************************)
(* Verification model of TUI101: the scrollable, selectable list shared by *)
(* every pane (panes.BasePaneModel) and the key routing of the top-level   *)
(* application model (app.Model).                                          *)
(*                                                                         *)
(* Go strings are modelled as sequences of one-character strings, Go       *)
(* slices as sequences (index i of the code is index i+1 of the sequence). *)
(***************************************************************************)
EXTENDS Integers, Sequences, FiniteSets, Bags, TLC

VARIABLES
    b,          \* the BasePaneModel under test (list specifications)
    op,         \* the last method called on b: name, arguments, item count before the call
    ret,        \* the value returned by the last call that returns items
    panicked,   \* TRUE once a call sliced b.items out of range
    downs,      \* MoveDown calls since selectedIndex = scrollOffset = 0, -1 if other calls intervened
    afterClear, \* TRUE when Clear was called and only MoveDown / MoveUp were called since
    m,          \* the app.Model (the git variant's in the git specification)
    inflight,   \* the commands in flight: their number per kind of completion message;
                \* in the git specification the closures not yet run (work) and the
                \* messages they produced that are not yet dispatched (mail)
    started     \* TRUE once the runtime has called app.Model.Init

listVars == <<b, op, ret, panicked, downs, afterClear>>
routerVars == <<m, inflight, started>>
vars == <<b, op, ret, panicked, downs, afterClear, m, inflight, started>>

----------------------------------------------------------------------------
(* Bounds *)

MaxLen == 5         \* longest item sequence explored
MaxW == 3           \* largest explicitly configured window size
MaxInFlight == 1    \* most commands of one kind in flight at a time
MaxItems == 2       \* records of each mock data set that are loaded
MaxOverlap == 2     \* most overlapping refreshes of one pane
MaxWork == 2        \* most closures and messages of one kind in flight in the git variant

----------------------------------------------------------------------------
(* Strings *)

Min(x, y) == IF x < y THEN x ELSE y
Max(x, y) == IF x > y THEN x ELSE y

\* upper-case / lower-case pairs of the letters used in the item pool
CasePairs == { <<"A", "a">>, <<"E", "e">>, <<"F", "f">>, <<"M", "m">>, <<"R", "r">> }
Alphabet == { p[1] : p \in CasePairs } \cup { p[2] : p \in CasePairs } \cup { "/", "1" }

\* strings.ToLower on one character
LowerChar(c) == IF \E p \in CasePairs : p[1] = c
                THEN (CHOOSE p \in CasePairs : p[1] = c)[2]
                ELSE c

ToLower(s) == [i \in 1..Len(s) |-> LowerChar(s[i])]

\* strings.Contains
Contains(s, substr) ==
    \E i \in 0..(Len(s) - Len(substr)) : SubSeq(s, i + 1, i + Len(substr)) = substr

containsIgnoreCaseExactQuery(s, substr) == Contains(ToLower(s), substr)

containsIgnoreCase(s, substr) == Contains(ToLower(s), ToLower(substr))

----------------------------------------------------------------------------
(* panes.PaneItem and panes.BasePaneModel *)

PaneItem(display, value, type) == [Display |-> display, Value |-> value, Type |-> type]

ItemA == PaneItem(<<"M", "a">>, <<"1">>, "current")
ItemB == PaneItem(<<"f", "e", "/", "a">>, <<"F", "E">>, "local")
ItemC == PaneItem(<<"r", "e">>, <<"r">>, "local")
ItemD == PaneItem(<<"A">>, <<"a", "M">>, "remote")
ItemE == PaneItem(<< >>, << >>, "local")

\* the items callers add, in the order callers sort them before insertion
ItemPool == <<ItemA, ItemB, ItemC, ItemD, ItemE>>

Rank(item) == CHOOSE k \in 1..Len(ItemPool) : ItemPool[k] = item

Queries == { << >>, <<"F", "E">>, <<"A", "M">>, <<"e", "/">>, <<"1", "1">> }

DefaultMaxDisplayItems == 50

NewBasePaneModel(title, id) ==
    [ title |-> title, id |-> id, items |-> << >>, selectedIndex |-> 0,
      active |-> FALSE, loading |-> FALSE,
      maxDisplayItems |-> DefaultMaxDisplayItems, scrollOffset |-> 0 ]

adjustScrollOffsetOnlyUp(p) ==
    IF Len(p.items) = 0
    THEN [p EXCEPT !.scrollOffset = 0]
    ELSE [p EXCEPT !.scrollOffset = Max(0, Min(p.scrollOffset, p.selectedIndex))]

adjustScrollOffset(p) ==
    IF Len(p.items) = 0
    THEN [p EXCEPT !.scrollOffset = 0]
    ELSE LET o1 == IF p.selectedIndex < p.scrollOffset THEN p.selectedIndex ELSE p.scrollOffset
             o2 == IF p.selectedIndex >= o1 + p.maxDisplayItems
                   THEN p.selectedIndex - p.maxDisplayItems + 1
                   ELSE o1
             o3 == IF o2 < 0 THEN 0 ELSE o2
         IN  [p EXCEPT !.scrollOffset = o3]

GetSelectedItem(p) ==
    IF Len(p.items) = 0 \/ p.selectedIndex >= Len(p.items) \/ p.selectedIndex < 0
    THEN << >>
    ELSE << p.items[p.selectedIndex + 1] >>

MoveUpStopsAtTop(p) ==
    IF Len(p.items) = 0
    THEN p
    ELSE adjustScrollOffset(
            [p EXCEPT !.selectedIndex = IF p.selectedIndex > 0
                                        THEN p.selectedIndex - 1
                                        ELSE p.selectedIndex])

MoveUpNoGuard(p) ==
    adjustScrollOffset(
        [p EXCEPT !.selectedIndex = IF p.selectedIndex > 0
                                    THEN p.selectedIndex - 1
                                    ELSE Len(p.items) - 1])

MoveUp(p) ==
    IF Len(p.items) = 0
    THEN p
    ELSE adjustScrollOffset(
            [p EXCEPT !.selectedIndex = IF p.selectedIndex > 0
                                        THEN p.selectedIndex - 1
                                        ELSE Len(p.items) - 1])

MoveDownNoWrap(p) ==
    IF Len(p.items) = 0
    THEN p
    ELSE adjustScrollOffset(
            [p EXCEPT !.selectedIndex = IF p.selectedIndex < Len(p.items) - 1
                                        THEN p.selectedIndex + 1
                                        ELSE p.selectedIndex])

MoveDown(p) ==
    IF Len(p.items) = 0
    THEN p
    ELSE adjustScrollOffset(
            [p EXCEPT !.selectedIndex = IF p.selectedIndex < Len(p.items) - 1
                                        THEN p.selectedIndex + 1
                                        ELSE 0])

MoveToTop(p) == [p EXCEPT !.selectedIndex = 0, !.scrollOffset = 0]

MoveToBottomNoScroll(p) ==
    IF Len(p.items) > 0
    THEN [p EXCEPT !.selectedIndex = Len(p.items) - 1]
    ELSE p

MoveToBottom(p) ==
    IF Len(p.items) > 0
    THEN adjustScrollOffset([p EXCEPT !.selectedIndex = Len(p.items) - 1])
    ELSE p

SelectItemOffByOne(p, index) ==
    IF index >= 0 /\ index <= Len(p.items)
    THEN adjustScrollOffset([p EXCEPT !.selectedIndex = index])
    ELSE p

SelectItem(p, index) ==
    IF index >= 0 /\ index < Len(p.items)
    THEN adjustScrollOffset([p EXCEPT !.selectedIndex = index])
    ELSE p

SetActive(p, active) == [p EXCEPT !.active = active]

SetLoading(p, loading) == [p EXCEPT !.loading = loading]

ClearKeepSelection(p) == [p EXCEPT !.items = << >>, !.scrollOffset = 0]

Clear(p) == [p EXCEPT !.items = << >>, !.selectedIndex = 0, !.scrollOffset = 0]

AddItem(p, item) == [p EXCEPT !.items = Append(p.items, item)]

RemoveItemNoClamp(p, index) ==
    IF index >= 0 /\ index < Len(p.items)
    THEN adjustScrollOffset(
            [p EXCEPT !.items = SubSeq(p.items, 1, index) \o SubSeq(p.items, index + 2, Len(p.items))])
    ELSE p

RemoveItem(p, index) ==
    IF index >= 0 /\ index < Len(p.items)
    THEN LET rest == SubSeq(p.items, 1, index) \o SubSeq(p.items, index + 2, Len(p.items))
             sel  == IF p.selectedIndex >= Len(rest) /\ Len(rest) > 0
                     THEN Len(rest) - 1
                     ELSE p.selectedIndex
         IN  adjustScrollOffset([p EXCEPT !.items = rest, !.selectedIndex = sel])
    ELSE p

Filter(p, query) ==
    IF query = << >>
    THEN p.items
    ELSE SelectSeq(p.items,
                   LAMBDA item : containsIgnoreCase(item.Display, query)
                                 \/ containsIgnoreCase(item.Value, query))

SetMaxDisplayItems(p, max) == [p EXCEPT !.maxDisplayItems = max]

\* the bounds of the slice expression b.items[start:end] of GetVisibleItems
\* (not evaluated by the code when the list is empty)
VisibleBoundsUnclamped(p) ==
    [start |-> p.scrollOffset, end |-> p.scrollOffset + p.maxDisplayItems]

VisibleBounds(p) ==
    LET start0 == p.scrollOffset
        end0   == start0 + p.maxDisplayItems
        end    == IF end0 > Len(p.items) THEN Len(p.items) ELSE end0
        start  == IF start0 > end THEN end ELSE start0
    IN  [start |-> start, end |-> end]

\* Go's run-time check of a slice expression s[lo:hi] on a slice of length n
\* whose capacity is not known to exceed n
SliceInRange(lo, hi, n) == 0 <= lo /\ lo <= hi /\ hi <= n

GetVisibleItemsPanics(p) ==
    /\ Len(p.items) # 0
    /\ ~SliceInRange(VisibleBounds(p).start, VisibleBounds(p).end, Len(p.items))

GetVisibleItems(p) ==
    IF Len(p.items) = 0 \/ GetVisibleItemsPanics(p)
    THEN << >>
    ELSE SubSeq(p.items, VisibleBounds(p).start + 1, VisibleBounds(p).end)

----------------------------------------------------------------------------
(* The panes of the application: Workspace, Packages, Pull Requests, Greeting *)

\* A tea.Cmd is modelled as the sequence of the kinds of completion message it
\* will produce; nil is the empty sequence.
Nil == << >>

Quit == <<"quit">>

RECURSIVE Flatten(_)
Flatten(cmds) == IF cmds = << >> THEN << >> ELSE Head(cmds) \o Flatten(Tail(cmds))

\* tea.Batch drops nil commands and is itself nil when none is left
Batch(cmds) == Flatten(cmds)

KeyMsg(key) == [type |-> "KeyMsg", key |-> key, Width |-> 0, Height |-> 0, t |-> 0]

WindowSizeMsg(w, h) == [type |-> "WindowSizeMsg", key |-> "", Width |-> w, Height |-> h, t |-> 0]

\* the completion message of a refresh; t is the clock reading it carries
UpdateMsg(type, t) == [type |-> type, key |-> "", Width |-> 0, Height |-> 0, t |-> t]

\* git.ErrorMsg and git.ActionCompleteMsg; no handler reads their fields
ErrorMsg == [type |-> "ErrorMsg", key |-> "", Width |-> 0, Height |-> 0, t |-> 0]

ActionCompleteMsg == [type |-> "ActionCompleteMsg", key |-> "", Width |-> 0, Height |-> 0, t |-> 0]

RECURSIVE AddItems(_, _)
AddItems(p, its) == IF its = << >> THEN p ELSE AddItems(AddItem(p, Head(its)), Tail(its))

gatherWorkspaceInfo(t) ==
    << PaneItem("JoeWorkspace", "JoeWorkspace", "name"),
       PaneItem("Version Set: v1.0.0", "v1.0.0", "version"),
       PaneItem("Updated: " \o ToString(t), ToString(t), "metadata") >>

\* the first records of a mock data set, at most MaxItems of them
Loaded(records) == SubSeq(records, 1, Min(MaxItems, Len(records)))

gatherPackages == Loaded(
    << PaneItem("antonio [main] ^3", "antonio", "active"),
       PaneItem("miguel [feature/auth]", "miguel", "active"),
       PaneItem("rita [main] ^1", "rita", "active") >>)

gatherPullRequests == Loaded(
    << PaneItem("#1: Add new feature [antonio]", "1", "open"),
       PaneItem("#2: Fix bug in handler [miguel]", "2", "open"),
       PaneItem("#3: Update dependencies [rita]", "3", "merged"),
       PaneItem("#4: Refactor authentication [antonio]", "4", "closed"),
       PaneItem("#5: Add tests for API [miguel]", "5", "open") >>)

NewStatusPane == AddItems(Clear(NewBasePaneModel("Workspace", "workspace")), gatherWorkspaceInfo(0))

NewBranchesPane == AddItems(Clear(NewBasePaneModel("Packages", "packages")), gatherPackages)

NewCommitsPane == AddItems(Clear(NewBasePaneModel("Pull Requests", "pullrequests")), gatherPullRequests)

NewStashPane ==
    AddItems(Clear(NewBasePaneModel("Greeting", "greeting")), << PaneItem("Hi", "hi", "greeting") >>)

\* the kind of completion message each pane's Refresh produces
CompletionOf(id) ==
    CASE id = "workspace" -> "WorkspaceUpdateMsg"
      [] id = "packages" -> "PackagesUpdateMsg"
      [] id = "pullrequests" -> "PullRequestsUpdateMsg"

CompletionKinds == {"WorkspaceUpdateMsg", "PackagesUpdateMsg", "PullRequestsUpdateMsg"}

\* Pane.Refresh: the pane after the call and the command it returns
Refresh(p) ==
    IF p.id = "greeting"
    THEN [p |-> p, cmd |-> Nil]
    ELSE [p |-> SetLoading(p, TRUE), cmd |-> <<CompletionOf(p.id)>>]

\* Pane.Init
PaneInit(p) == IF p.id = "greeting" THEN [p |-> p, cmd |-> Nil] ELSE Refresh(p)

updateFromWorkspaceInfoWhileLoading(p, msg_) ==
    IF p.loading
    THEN AddItems(Clear(SetLoading(p, FALSE)), gatherWorkspaceInfo(msg_.t))
    ELSE p

updateFromWorkspaceInfo(p, msg_) ==
    AddItems(Clear(SetLoading(p, FALSE)), gatherWorkspaceInfo(msg_.t))

updateFromPackagesMsgStillLoading(p, msg_) ==
    AddItems(Clear(p), gatherPackages)

updateFromPackagesMsg(p, msg_) ==
    AddItems(Clear(SetLoading(p, FALSE)), gatherPackages)

updateFromPullRequestsMsgNoClear(p, msg_) ==
    AddItems(SetLoading(p, FALSE), gatherPullRequests)

updateFromPullRequestsMsg(p, msg_) ==
    AddItems(Clear(SetLoading(p, FALSE)), gatherPullRequests)

StatusPaneUpdate(p, msg_) ==
    IF msg_.type = "KeyMsg"
    THEN IF ~p.active
         THEN [p |-> p, cmd |-> Nil]
         ELSE CASE msg_.key \in {"j", "down"} -> [p |-> MoveDown(p), cmd |-> Nil]
                [] msg_.key \in {"k", "up"} -> [p |-> MoveUp(p), cmd |-> Nil]
                [] msg_.key = "r" -> Refresh(p)
                [] OTHER -> [p |-> p, cmd |-> Nil]
    ELSE IF msg_.type = "WorkspaceUpdateMsg"
    THEN [p |-> updateFromWorkspaceInfo(p, msg_), cmd |-> Nil]
    ELSE [p |-> p, cmd |-> Nil]

ListPaneKeyUpToTop(p, key) ==
    IF ~p.active
    THEN [p |-> p, cmd |-> Nil]
    ELSE CASE key \in {"j", "down"} -> [p |-> MoveDown(p), cmd |-> Nil]
           [] key \in {"k", "up", "g"} -> [p |-> MoveToTop(p), cmd |-> Nil]
           [] key = "G" -> [p |-> MoveToBottom(p), cmd |-> Nil]
           [] key = "r" -> Refresh(p)
           [] OTHER -> [p |-> p, cmd |-> Nil]

\* the key handling shared by the Packages and the Pull Requests pane
ListPaneKey(p, key) ==
    IF ~p.active
    THEN [p |-> p, cmd |-> Nil]
    ELSE CASE key \in {"j", "down"} -> [p |-> MoveDown(p), cmd |-> Nil]
           [] key \in {"k", "up"} -> [p |-> MoveUp(p), cmd |-> Nil]
           [] key = "g" -> [p |-> MoveToTop(p), cmd |-> Nil]
           [] key = "G" -> [p |-> MoveToBottom(p), cmd |-> Nil]
           [] key = "r" -> Refresh(p)
           [] OTHER -> [p |-> p, cmd |-> Nil]

PackagesPaneUpdateActiveOnly(p, msg_) ==
    IF ~p.active
    THEN [p |-> p, cmd |-> Nil]
    ELSE IF msg_.type = "KeyMsg"
    THEN ListPaneKey(p, msg_.key)
    ELSE IF msg_.type = "PackagesUpdateMsg"
    THEN [p |-> updateFromPackagesMsg(p, msg_), cmd |-> Nil]
    ELSE [p |-> p, cmd |-> Nil]

PackagesPaneUpdate(p, msg_) ==
    IF msg_.type = "KeyMsg"
    THEN ListPaneKey(p, msg_.key)
    ELSE IF msg_.type = "PackagesUpdateMsg"
    THEN [p |-> updateFromPackagesMsg(p, msg_), cmd |-> Nil]
    ELSE [p |-> p, cmd |-> Nil]

PullRequestsPaneUpdateAnyCompletion(p, msg_) ==
    IF msg_.type = "KeyMsg"
    THEN ListPaneKey(p, msg_.key)
    ELSE IF msg_.type \in CompletionKinds
    THEN [p |-> updateFromPullRequestsMsg(p, msg_), cmd |-> Nil]
    ELSE [p |-> p, cmd |-> Nil]

PullRequestsPaneUpdate(p, msg_) ==
    IF msg_.type = "KeyMsg"
    THEN ListPaneKey(p, msg_.key)
    ELSE IF msg_.type = "PullRequestsUpdateMsg"
    THEN [p |-> updateFromPullRequestsMsg(p, msg_), cmd |-> Nil]
    ELSE [p |-> p, cmd |-> Nil]

GreetingPaneUpdate(p, msg_) == [p |-> p, cmd |-> Nil]

\* Pane.Update, dispatched on the concrete pane
PaneUpdate(p, msg_) ==
    CASE p.id = "workspace" -> StatusPaneUpdate(p, msg_)
      [] p.id = "packages" -> PackagesPaneUpdate(p, msg_)
      [] p.id = "pullrequests" -> PullRequestsPaneUpdate(p, msg_)
      [] p.id = "greeting" -> GreetingPaneUpdate(p, msg_)

----------------------------------------------------------------------------
(* The Files and Commits panes of the git variant *)

\* a path is "." or a slash-separated name; filepath.Dir of the paths used here
PathDir(path) ==
    CASE path = "src/panes" -> "src"
      [] path = "src" -> "."
      [] path = "/src" -> "/"
      [] OTHER -> "."

\* a FilesPane: the embedded BasePaneModel base and the pane's own fields
FilesPaneOf(base, currentPath, showHidden) ==
    [ title |-> base.title, id |-> base.id, items |-> base.items,
      selectedIndex |-> base.selectedIndex, active |-> base.active,
      loading |-> base.loading, maxDisplayItems |-> base.maxDisplayItems,
      scrollOffset |-> base.scrollOffset,
      currentPath |-> currentPath, showHidden |-> showHidden, maxFiles |-> 100 ]

FilesRefresh(f) == [p |-> SetLoading(f, TRUE), cmd |-> <<"FilesUpdateMsg">>]

upDirectory(f) ==
    IF f.currentPath = "." \/ f.currentPath = ""
    THEN [p |-> f, cmd |-> Nil]
    ELSE LET dir == PathDir(f.currentPath)
             path == IF dir = "/" \/ dir = "\\" THEN "." ELSE dir
         IN  FilesRefresh([f EXCEPT !.currentPath = path,
                                    !.selectedIndex = 0,
                                    !.scrollOffset = 0])

enterDirectory(f, dirPath) ==
    IF dirPath = ".."
    THEN upDirectory(f)
    ELSE FilesRefresh([f EXCEPT !.currentPath = dirPath,
                                !.selectedIndex = 0,
                                !.scrollOffset = 0])

FilesHandleAction(f, action) ==
    LET selectedItem == GetSelectedItem(f)
    IN  IF selectedItem = << >>
        THEN [p |-> f, cmd |-> Nil]
        ELSE CASE action = "open" ->
                    IF selectedItem[1].Type = "directory"
                    THEN enterDirectory(f, selectedItem[1].Value)
                    ELSE [p |-> f, cmd |-> Nil]
               [] action = "enter_directory" ->
                    IF selectedItem[1].Type = "directory"
                    THEN enterDirectory(f, selectedItem[1].Value)
                    ELSE [p |-> f, cmd |-> Nil]
               [] action = "up_directory" -> upDirectory(f)
               [] action = "stage" -> [p |-> f, cmd |-> <<"stageFile">>]
               [] action = "unstage" -> [p |-> f, cmd |-> <<"unstageFile">>]
               [] action = "diff" -> [p |-> f, cmd |-> <<"DiffUpdateMsg">>]
               [] OTHER -> [p |-> f, cmd |-> Nil]

\* the item updateFromFilesMsg builds from one git.FileInfo
FileItem(fileInfo) ==
    PaneItem(IF fileInfo.IsDir THEN fileInfo.Name \o "/" ELSE fileInfo.Name,
             fileInfo.Path,
             IF fileInfo.IsDir THEN "directory"
             ELSE IF fileInfo.Status # "" THEN fileInfo.Status ELSE "tracked")

updateFromFilesMsg(f, msg_) ==
    LET cleared == Clear(SetLoading(f, FALSE))
        parent == IF f.currentPath # "." /\ f.currentPath # ""
                  THEN << PaneItem("../", "..", "directory") >>
                  ELSE << >>
    IN  AddItems(cleared, parent \o [i \in 1..Len(msg_.Files) |-> FileItem(msg_.Files[i])])

\* the switch on the key of an active FilesPane
FilesPaneKey(f, key) ==
    CASE key \in {"j", "down"} -> [p |-> MoveDown(f), cmd |-> Nil]
      [] key \in {"k", "up"} -> [p |-> MoveUp(f), cmd |-> Nil]
      [] key = "g" -> [p |-> MoveToTop(f), cmd |-> Nil]
      [] key = "G" -> [p |-> MoveToBottom(f), cmd |-> Nil]
      [] key = "enter" -> FilesHandleAction(f, "open")
      [] key \in {"h", "left"} -> FilesHandleAction(f, "up_directory")
      [] key \in {"l", "right"} -> FilesHandleAction(f, "enter_directory")
      [] key = "." -> FilesRefresh([f EXCEPT !.showHidden = ~f.showHidden])
      [] key = "r" -> FilesRefresh(f)
      [] key = "a" -> FilesHandleAction(f, "stage")
      [] key = "u" -> FilesHandleAction(f, "unstage")
      [] key = "d" -> FilesHandleAction(f, "diff")
      [] OTHER -> [p |-> f, cmd |-> Nil]

FilesPaneUpdateNoActiveCheck(f, msg_) ==
    IF msg_.type = "KeyMsg"
    THEN FilesPaneKey(f, msg_.key)
    ELSE IF msg_.type = "FilesUpdateMsg"
    THEN [p |-> updateFromFilesMsg(f, msg_), cmd |-> Nil]
    ELSE [p |-> f, cmd |-> Nil]

FilesPaneUpdate(f, msg_) ==
    IF msg_.type = "KeyMsg"
    THEN IF ~f.active THEN [p |-> f, cmd |-> Nil] ELSE FilesPaneKey(f, msg_.key)
    ELSE IF msg_.type = "FilesUpdateMsg"
    THEN [p |-> updateFromFilesMsg(f, msg_), cmd |-> Nil]
    ELSE [p |-> f, cmd |-> Nil]

\* a CommitsPane: the embedded BasePaneModel base and the pane's own fields
CommitsPaneOf(base, showReflog, limit) ==
    [ title |-> base.title, id |-> base.id, items |-> base.items,
      selectedIndex |-> base.selectedIndex, active |-> base.active,
      loading |-> base.loading, maxDisplayItems |-> base.maxDisplayItems,
      scrollOffset |-> base.scrollOffset,
      showReflog |-> showReflog, limit |-> limit ]

CommitsRefresh(c) == [p |-> SetLoading(c, TRUE), cmd |-> <<"CommitsUpdateMsg">>]

CommitsHandleAction(c, action) ==
    IF GetSelectedItem(c) = << >>
    THEN [p |-> c, cmd |-> Nil]
    ELSE CASE action = "show_diff" -> [p |-> c, cmd |-> <<"DiffUpdateMsg">>]
           [] action \in {"show_commit", "cherry_pick", "reset", "revert", "squash",
                          "edit", "fixup", "search"} ->
                [p |-> c, cmd |-> <<"ActionCompleteMsg">>]
           [] OTHER -> [p |-> c, cmd |-> Nil]

\* the item updateFromCommitsMsg builds from one git.Commit; Message is a
\* sequence of characters
CommitItem(commit) ==
    PaneItem(<<commit.ShortHash, " ", commit.Author>> \o <<" ", "o", " ">> \o commit.Message,
             commit.Hash,
             IF Contains(ToLower(commit.Message), <<"m", "e", "r", "g", "e">>)
             THEN "merge" ELSE "commit")

updateFromCommitsMsg(c, msg_) ==
    AddItems(Clear(SetLoading(c, FALSE)),
             [i \in 1..Len(msg_.Commits) |-> CommitItem(msg_.Commits[i])])

\* the switch on the key of an active CommitsPane
CommitsPaneKey(c, key) ==
    CASE key \in {"j", "down"} -> [p |-> MoveDown(c), cmd |-> Nil]
      [] key \in {"k", "up"} -> [p |-> MoveUp(c), cmd |-> Nil]
      [] key = "g" -> [p |-> MoveToTop(c), cmd |-> Nil]
      [] key = "G" -> [p |-> MoveToBottom(c), cmd |-> Nil]
      [] key = "enter" -> CommitsHandleAction(c, "show_commit")
      [] key = "d" -> CommitsHandleAction(c, "show_diff")
      [] key = "c" -> CommitsHandleAction(c, "cherry_pick")
      [] key = "r" -> CommitsRefresh(c)
      [] key = "R" -> CommitsHandleAction(c, "reset")
      [] key = "v" -> CommitsHandleAction(c, "revert")
      [] key = "s" -> CommitsHandleAction(c, "squash")
      [] key = "e" -> CommitsHandleAction(c, "edit")
      [] key = "f" -> CommitsHandleAction(c, "fixup")
      [] key = "t" -> CommitsRefresh([c EXCEPT !.showReflog = ~c.showReflog])
      [] key = "ctrl+f" -> CommitsHandleAction(c, "search")
      [] key = "+" -> CommitsRefresh([c EXCEPT !.limit = c.limit + 25])
      [] key = "-" -> IF c.limit > 25
                      THEN CommitsRefresh([c EXCEPT !.limit = c.limit - 25])
                      ELSE [p |-> c, cmd |-> Nil]
      [] OTHER -> [p |-> c, cmd |-> Nil]

CommitsPaneUpdate(c, msg_) ==
    IF msg_.type = "KeyMsg"
    THEN IF ~c.active THEN [p |-> c, cmd |-> Nil] ELSE CommitsPaneKey(c, msg_.key)
    ELSE IF msg_.type = "CommitsUpdateMsg"
    THEN [p |-> updateFromCommitsMsg(c, msg_), cmd |-> Nil]
    ELSE [p |-> c, cmd |-> Nil]

\* strings.HasPrefix on sequences of characters
HasPrefix(str, prefix) ==
    Len(str) >= Len(prefix) /\ SubSeq(str, 1, Len(prefix)) = prefix

\* strings.Index for a single character: the 0-based position of its first
\* occurrence, -1 when there is none
IndexOfChar(str, c) ==
    IF \E i \in 1..Len(str) : str[i] = c
    THEN (CHOOSE i \in 1..Len(str) : str[i] = c /\ \A j \in 1..(i - 1) : str[j] # c) - 1
    ELSE -1

StashPrefix == <<"s", "t", "a", "s", "h", "@", "{">>

\* the item updateFromStashMsg builds from the i-th (0-based) stash line, a
\* sequence of characters
StashItem(i, stashLine) ==
    LET endIndex == IndexOfChar(stashLine, "}")
        stashRef == IF HasPrefix(stashLine, StashPrefix) /\ endIndex > 0
                    THEN SubSeq(stashLine, 1, endIndex + 1)
                    ELSE StashPrefix \o <<ToString(i), "}">>
    IN  PaneItem(stashLine, stashRef, "stash")

updateFromStashMsg(sp, msg_) ==
    LET cleared == Clear(SetLoading(sp, FALSE))
    IN  IF Len(msg_.Stashes) = 0
        THEN AddItem(cleared, PaneItem("No stashed changes", "", "empty"))
        ELSE AddItems(cleared,
                      [i \in 1..Len(msg_.Stashes) |-> StashItem(i - 1, msg_.Stashes[i])])

\* a BranchesPane: the embedded BasePaneModel base and the pane's own fields
BranchesPaneOf(base, showRemote, showTags) ==
    [ title |-> base.title, id |-> base.id, items |-> base.items,
      selectedIndex |-> base.selectedIndex, active |-> base.active,
      loading |-> base.loading, maxDisplayItems |-> base.maxDisplayItems,
      scrollOffset |-> base.scrollOffset,
      showRemote |-> showRemote, showTags |-> showTags ]

IsLocalBranch(branch) == ~branch.IsRemote

IsRemoteBranch(branch) == branch.IsRemote

updateFromBranchesMsg(bp, msg_) ==
    LET cleared == Clear(SetLoading(bp, FALSE))
        locals == SelectSeq(msg_.Branches, IsLocalBranch)
        remotes == SelectSeq(msg_.Branches, IsRemoteBranch)
        withLocals ==
            AddItems(cleared,
                     [i \in 1..Len(locals) |->
                         PaneItem(locals[i].Name, locals[i].Name,
                                  IF locals[i].IsCurrent THEN "current" ELSE "local")])
    IN  IF bp.showRemote
        THEN AddItems(withLocals,
                      [i \in 1..Len(remotes) |->
                          PaneItem(remotes[i].Name, remotes[i].Name, "remote")])
        ELSE withLocals

----------------------------------------------------------------------------
(* app.DetailsPane *)

DetailsReset(d) == [d EXCEPT !.selectedLine = 0, !.scrollPos = 0]

DetailsMoveDown(d) ==
    IF Len(d.lines) = 0 THEN d
    ELSE IF d.selectedLine < Len(d.lines) - 1
         THEN [d EXCEPT !.selectedLine = d.selectedLine + 1]
         ELSE d

DetailsMoveUp(d) ==
    IF d.selectedLine > 0 THEN [d EXCEPT !.selectedLine = d.selectedLine - 1] ELSE d

DetailsMoveToTop(d) == [d EXCEPT !.selectedLine = 0, !.scrollPos = 0]

DetailsMoveToBottom(d) ==
    IF Len(d.lines) > 0 THEN [d EXCEPT !.selectedLine = Len(d.lines) - 1] ELSE d

AdjustScrollOnlyDown(d, maxLines0) ==
    LET maxLines == IF maxLines0 < 1 THEN 1 ELSE maxLines0
        s1 == IF d.selectedLine >= d.scrollPos + maxLines
              THEN d.selectedLine - maxLines + 1
              ELSE d.scrollPos
    IN  [d EXCEPT !.scrollPos = s1]

AdjustScroll(d, maxLines0) ==
    LET maxLines == IF maxLines0 < 1 THEN 1 ELSE maxLines0
        s1 == IF d.selectedLine >= d.scrollPos + maxLines
              THEN d.selectedLine - maxLines + 1
              ELSE d.scrollPos
        s2 == IF d.selectedLine < s1 THEN d.selectedLine ELSE s1
    IN  [d EXCEPT !.scrollPos = s2]

ScrollDown(d, maxLines) ==
    IF Len(d.lines) > 0
    THEN LET maxScroll == Max(0, Len(d.lines) - maxLines)
         IN  IF d.scrollPos < maxScroll THEN [d EXCEPT !.scrollPos = d.scrollPos + 1] ELSE d
    ELSE d

ScrollUp(d) == IF d.scrollPos > 0 THEN [d EXCEPT !.scrollPos = d.scrollPos - 1] ELSE d

----------------------------------------------------------------------------
(* app.Model, the variant with a details focus *)

FocusLeftPanes == 0
FocusDetails == 1

NewModel ==
    [ panes |-> << NewStatusPane, NewBranchesPane, NewCommitsPane, NewStashPane >>,
      activePane |-> 0,
      width |-> 0,
      height |-> 0,
      quitting |-> FALSE,
      details |-> [selectedLine |-> 0, scrollPos |-> 0, lines |-> << >>],
      focus |-> FocusLeftPanes ]

\* the panes after applying f to each, and the commands f returned, in pane order
PanesOf(results) == [i \in 1..Len(results) |-> results[i].p]
CmdsOf(results) == [i \in 1..Len(results) |-> results[i].cmd]

ModelInit(mm) ==
    LET results == [i \in 1..Len(mm.panes) |-> PaneInit(mm.panes[i])]
    IN  [m |-> [mm EXCEPT !.panes = PanesOf(results)], cmd |-> Batch(CmdsOf(results))]

setActivePaneKeepOthers(mm, index) ==
    IF index >= 0 /\ index < Len(mm.panes)
    THEN [mm EXCEPT !.activePane = index,
                    !.panes[index + 1] = SetActive(mm.panes[index + 1], TRUE)]
    ELSE mm

setActivePane(mm, index) ==
    IF index >= 0 /\ index < Len(mm.panes)
    THEN [mm EXCEPT !.activePane = index,
                    !.panes = [i \in 1..Len(mm.panes) |-> SetActive(mm.panes[i], i - 1 = index)]]
    ELSE mm

nextPaneNoWrap(mm) == setActivePane(mm, mm.activePane + 1)

nextPane(mm) == setActivePane(mm, (mm.activePane + 1) % Len(mm.panes))

prevPane(mm) == setActivePane(mm, (mm.activePane - 1 + Len(mm.panes)) % Len(mm.panes))

toggleFocusKeepCursor(mm) ==
    IF mm.focus = FocusLeftPanes
    THEN [mm EXCEPT !.focus = FocusDetails]
    ELSE [mm EXCEPT !.focus = FocusLeftPanes]

toggleFocus(mm) ==
    IF mm.focus = FocusLeftPanes
    THEN [mm EXCEPT !.focus = FocusDetails, !.details = DetailsReset(mm.details)]
    ELSE [mm EXCEPT !.focus = FocusLeftPanes]

refreshAllActiveOnly(mm) ==
    LET results == [i \in 1..Len(mm.panes) |->
                       IF i - 1 = mm.activePane THEN Refresh(mm.panes[i])
                       ELSE [p |-> mm.panes[i], cmd |-> Nil]]
    IN  [m |-> [mm EXCEPT !.panes = PanesOf(results)], cmd |-> Batch(CmdsOf(results))]

refreshAll(mm) ==
    LET results == [i \in 1..Len(mm.panes) |-> Refresh(mm.panes[i])]
    IN  [m |-> [mm EXCEPT !.panes = PanesOf(results)], cmd |-> Batch(CmdsOf(results))]

handlePaneNavigationAnyFocus(mm, navigated) == [m |-> navigated, cmd |-> Batch(<< >>)]

\* navigated is the model after navFunc has run
handlePaneNavigation(mm, navigated) ==
    [m |-> IF mm.focus = FocusLeftPanes THEN navigated ELSE mm, cmd |-> Batch(<< >>)]

handleVerticalNavigation(mm, down) ==
    IF mm.focus = FocusDetails
    THEN [m |-> [mm EXCEPT !.details =
                    AdjustScroll(IF down THEN DetailsMoveDown(mm.details)
                                         ELSE DetailsMoveUp(mm.details),
                                 mm.height - 5)],
          cmd |-> Batch(<< >>)]
    ELSE IF mm.activePane # 3
    THEN [m |-> [mm EXCEPT !.details = IF down THEN ScrollDown(mm.details, mm.height - 5)
                                               ELSE ScrollUp(mm.details)],
          cmd |-> Batch(<< >>)]
    ELSE [m |-> mm, cmd |-> Nil]

handleJumpToTop(mm) ==
    IF mm.focus = FocusDetails
    THEN [m |-> [mm EXCEPT !.details = DetailsMoveToTop(mm.details)], cmd |-> Batch(<< >>)]
    ELSE [m |-> mm, cmd |-> Nil]

handleJumpToBottom(mm) ==
    IF mm.focus = FocusDetails
    THEN [m |-> [mm EXCEPT !.details = AdjustScroll(DetailsMoveToBottom(mm.details), mm.height - 5)],
          cmd |-> Batch(<< >>)]
    ELSE [m |-> mm, cmd |-> Nil]

handleKeyMsgHelpQuits(mm, key) ==
    CASE key \in {"q", "ctrl+c", "?"} -> [m |-> [mm EXCEPT !.quitting = TRUE], cmd |-> Quit]
      [] key = "tab" -> handlePaneNavigation(mm, nextPane(mm))
      [] key = "shift+tab" -> handlePaneNavigation(mm, prevPane(mm))
      [] key = "1" -> handlePaneNavigation(mm, setActivePane(mm, 0))
      [] key = "2" -> handlePaneNavigation(mm, setActivePane(mm, 1))
      [] key = "3" -> handlePaneNavigation(mm, setActivePane(mm, 2))
      [] key = "4" -> handlePaneNavigation(mm, setActivePane(mm, 3))
      [] key = "ctrl+r" -> refreshAll(mm)
      [] key \in {"j", "down"} -> handleVerticalNavigation(mm, TRUE)
      [] key \in {"k", "up"} -> handleVerticalNavigation(mm, FALSE)
      [] key = "g" -> handleJumpToTop(mm)
      [] key = "G" -> handleJumpToBottom(mm)
      [] OTHER -> [m |-> mm, cmd |-> Nil]

handleKeyMsg(mm, key) ==
    CASE key \in {"q", "ctrl+c"} -> [m |-> [mm EXCEPT !.quitting = TRUE], cmd |-> Quit]
      [] key = "tab" -> handlePaneNavigation(mm, nextPane(mm))
      [] key = "shift+tab" -> handlePaneNavigation(mm, prevPane(mm))
      [] key = "1" -> handlePaneNavigation(mm, setActivePane(mm, 0))
      [] key = "2" -> handlePaneNavigation(mm, setActivePane(mm, 1))
      [] key = "3" -> handlePaneNavigation(mm, setActivePane(mm, 2))
      [] key = "4" -> handlePaneNavigation(mm, setActivePane(mm, 3))
      [] key = "ctrl+r" -> refreshAll(mm)
      [] key = "?" -> [m |-> mm, cmd |-> Batch(<< >>)]
      [] key \in {"j", "down"} -> handleVerticalNavigation(mm, TRUE)
      [] key \in {"k", "up"} -> handleVerticalNavigation(mm, FALSE)
      [] key = "g" -> handleJumpToTop(mm)
      [] key = "G" -> handleJumpToBottom(mm)
      [] OTHER -> [m |-> mm, cmd |-> Nil]

\* Model.Update: the model after the call, the command it returns, and the
\* indexes of the panes whose Update it invoked
Update(mm, msg_) ==
    IF msg_.type = "WindowSizeMsg"
    THEN [m |-> [mm EXCEPT !.width = msg_.Width, !.height = msg_.Height], cmd |-> Nil,
          forwarded |-> {}]
    ELSE IF msg_.type = "KeyMsg"
    THEN IF msg_.key = " "
         THEN [m |-> toggleFocus(mm), cmd |-> Nil, forwarded |-> {}]
         ELSE LET handled == handleKeyMsg(mm, msg_.key)
                  m1 == handled.m
              IN  IF handled.cmd # Nil
                  THEN [m |-> m1, cmd |-> handled.cmd, forwarded |-> {}]
                  ELSE IF m1.focus = FocusDetails
                  THEN [m |-> m1, cmd |-> Nil, forwarded |-> {}]
                  ELSE IF m1.activePane < Len(m1.panes)
                  THEN LET r == PaneUpdate(m1.panes[m1.activePane + 1], msg_)
                       IN  [m |-> [m1 EXCEPT !.panes[m1.activePane + 1] = r.p],
                            cmd |-> Batch(<< r.cmd >>),
                            forwarded |-> {m1.activePane}]
                  ELSE [m |-> m1, cmd |-> Batch(<< >>), forwarded |-> {}]
    ELSE LET results == [i \in 1..Len(mm.panes) |-> PaneUpdate(mm.panes[i], msg_)]
         IN  [m |-> [mm EXCEPT !.panes = PanesOf(results)], cmd |-> Batch(CmdsOf(results)),
              forwarded |-> 0..(Len(mm.panes) - 1)]

\* a line built by fmt.Sprintf is the sequence of its pieces, a literal line
\* the sequence of that one string
updateDiffContent(mm) ==
    IF mm.activePane >= Len(mm.panes)
    THEN [mm EXCEPT !.details.lines = << <<"No pane selected">> >>]
    ELSE LET activePane_ == mm.panes[mm.activePane + 1]
             selectedItem == GetSelectedItem(activePane_)
         IN  IF selectedItem = << >>
             THEN [mm EXCEPT !.details.lines = << <<"Select an item to see details">> >>]
             ELSE [mm EXCEPT !.details.lines =
                      << <<"Selected Item Details:">>,
                         <<"">>,
                         <<"Name: ", selectedItem[1].Display>>,
                         <<"Value: ", selectedItem[1].Value>>,
                         <<"Type: ", selectedItem[1].Type>>,
                         <<"">>,
                         <<"From: ", activePane_.title, " pane">> >>]

\* the state changes of View; the rendered string is not modelled here
ViewKeepDetails(mm) ==
    IF mm.quitting
    THEN mm
    ELSE IF mm.width = 0 \/ mm.height = 0
    THEN mm
    ELSE LET m1 == IF mm.activePane >= Len(mm.panes) THEN [mm EXCEPT !.activePane = 0] ELSE mm
             m2 == [m1 EXCEPT !.panes =
                       [i \in 1..Len(m1.panes) |-> SetActive(m1.panes[i], i - 1 = m1.activePane)]]
         IN  IF m2.details.lines = << >> THEN updateDiffContent(m2) ELSE m2

View(mm) ==
    IF mm.quitting
    THEN mm
    ELSE IF mm.width = 0 \/ mm.height = 0
    THEN mm
    ELSE LET m1 == IF mm.activePane >= Len(mm.panes) THEN [mm EXCEPT !.activePane = 0] ELSE mm
             m2 == [m1 EXCEPT !.panes =
                       [i \in 1..Len(m1.panes) |-> SetActive(m1.panes[i], i - 1 = m1.activePane)]]
         IN  updateDiffContent(m2)

----------------------------------------------------------------------------
(* Calls on one BasePaneModel: the list specifications *)

WindowSizes == (1..MaxW) \cup {DefaultMaxDisplayItems}

Indexes == (-1)..MaxLen

Op(name, index, query) == [name |-> name, index |-> index, query |-> query, n |-> Len(b.items)]

\* the bookkeeping shared by every call: the new model, the call and what it returned
Called(nb, name, index, query, r) ==
    /\ b' = nb
    /\ op' = Op(name, index, query)
    /\ ret' = r
    /\ downs' = IF nb.selectedIndex = 0 /\ nb.scrollOffset = 0 THEN 0
               ELSE IF name = "MoveDown" /\ downs >= 0 /\ downs < MaxLen THEN downs + 1
               ELSE -1
    /\ afterClear' = (name = "Clear" \/ (afterClear /\ name \in {"MoveDown", "MoveUp"}))
    /\ UNCHANGED <<panicked, m, inflight, started>>

CallMoveUp ==
    /\ ~panicked
    /\ Called(MoveUp(b), "MoveUp", 0, << >>, << >>)

CallMoveDown ==
    /\ ~panicked
    /\ Called(MoveDown(b), "MoveDown", 0, << >>, << >>)

CallMoveToTop ==
    /\ ~panicked
    /\ Called(MoveToTop(b), "MoveToTop", 0, << >>, << >>)

CallMoveToBottom ==
    /\ ~panicked
    /\ Called(MoveToBottom(b), "MoveToBottom", 0, << >>, << >>)

CallSelectItem(index) ==
    /\ ~panicked
    /\ Called(SelectItem(b, index), "SelectItem", index, << >>, << >>)

CallClear ==
    /\ ~panicked
    /\ Called(Clear(b), "Clear", 0, << >>, << >>)

CallAddItem(item) ==
    /\ ~panicked
    /\ Len(b.items) < MaxLen
    /\ \A i \in 1..Len(b.items) : Rank(b.items[i]) < Rank(item)
    /\ Called(AddItem(b, item), "AddItem", 0, << >>, << >>)

CallRemoveItem(index) ==
    /\ ~panicked
    /\ Called(RemoveItem(b, index), "RemoveItem", index, << >>, << >>)

CallFilterInPlace(query) ==
    /\ ~panicked
    /\ Called([b EXCEPT !.items = Filter(b, query)], "Filter", 0, query, Filter(b, query))

CallFilter(query) ==
    /\ ~panicked
    /\ Called(b, "Filter", 0, query, Filter(b, query))

CallGetVisibleItems ==
    /\ ~panicked
    /\ b' = b
    /\ op' = Op("GetVisibleItems", 0, << >>)
    /\ ret' = GetVisibleItems(b)
    /\ panicked' = GetVisibleItemsPanics(b)
    /\ UNCHANGED <<downs, afterClear, m, inflight, started>>

CallSetMaxDisplayItems(max) ==
    /\ ~panicked
    /\ Called(SetMaxDisplayItems(b, max), "SetMaxDisplayItems", max, << >>, << >>)

InitList ==
    /\ \E w \in WindowSizes : b = SetMaxDisplayItems(NewBasePaneModel("List", "list"), w)
    /\ op = [name |-> "NewBasePaneModel", index |-> 0, query |-> << >>, n |-> 0]
    /\ ret = << >>
    /\ panicked = FALSE
    /\ downs = 0
    /\ afterClear = FALSE

NextList ==
    \/ CallMoveUp
    \/ CallMoveDown
    \/ CallMoveToTop
    \/ CallMoveToBottom
    \/ \E index \in Indexes : CallSelectItem(index)
    \/ CallClear
    \/ \E k \in 1..Len(ItemPool) : CallAddItem(ItemPool[k])
    \/ \E index \in Indexes : CallRemoveItem(index)
    \/ \E query \in Queries : CallFilter(query)
    \/ CallGetVisibleItems

NextListW ==
    \/ NextList
    \/ \E max \in (-MaxW)..MaxW : CallSetMaxDisplayItems(max)

InitRouter ==
    /\ m = NewModel
    /\ inflight = [k \in CompletionKinds |-> 0]
    /\ started = FALSE

\* the list specifications: one pane model set up with some window size,
\* the application not started
Init == InitList /\ InitRouter

\* the application specifications: the list under test left as constructed
InitApp ==
    /\ b = NewBasePaneModel("List", "list")
    /\ op = [name |-> "NewBasePaneModel", index |-> 0, query |-> << >>, n |-> 0]
    /\ ret = << >>
    /\ panicked = FALSE
    /\ downs = 0
    /\ afterClear = FALSE
    /\ InitRouter

\* a list whose window size is fixed when the pane is set up
SpecList == Init /\ [][NextList]_vars

\* a list whose window size is changed at any time, to any integer
SpecListW == Init /\ [][NextListW]_vars

----------------------------------------------------------------------------
(* The event loop of the runtime around app.Model *)

Keys == { " ", "q", "tab", "shift+tab", "1", "2", "3", "4", "5", "ctrl+r", "?",
          "j", "k", "g", "G", "r" }

\* the terminal sizes of resize events, width and height in cells
TerminalSizes == { <<80, 24>> }

\* the readings of time.Now() taken by gatherWorkspaceInfo; one reading keeps
\* the router's state space small, and no property below depends on the clock
ClockReadings == {0}

\* the clock readings a completion message of the given kind can carry
Times(kind) == IF kind = "WorkspaceUpdateMsg" THEN ClockReadings ELSE {0}

RECURSIVE Launch(_, _)
\* the commands of cmd added to those in flight
Launch(fl, cmd) ==
    IF cmd = << >> THEN fl
    ELSE Launch([fl EXCEPT ![Head(cmd)] = fl[Head(cmd)] + 1], Tail(cmd))

\* the runtime hands msg_ to Update, starts the returned command and renders;
\* at most bound commands of a kind are in flight
DispatchWithin(msg_, bound) ==
    \E r \in {Update(m, msg_)} :
        /\ \E updated \in {r.m} : m' = View(updated)
        /\ IF r.cmd = Quit
           THEN inflight' = inflight
           ELSE /\ inflight' = Launch(inflight, r.cmd)
                /\ \A k \in CompletionKinds : inflight'[k] <= bound
        /\ UNCHANGED <<b, op, ret, panicked, downs, afterClear, started>>

Dispatch(msg_) == DispatchWithin(msg_, MaxInFlight)

\* tea.NewProgram(model).Run(): Init, then the first render
ProgramStart ==
    /\ ~started
    /\ started' = TRUE
    /\ \E r \in {ModelInit(m)} :
           /\ \E updated \in {r.m} : m' = View(updated)
           /\ inflight' = Launch(inflight, r.cmd)
    /\ UNCHANGED <<b, op, ret, panicked, downs, afterClear>>

Resize(w, h) ==
    /\ started /\ ~m.quitting
    /\ Dispatch(WindowSizeMsg(w, h))

Key(key) ==
    /\ started /\ ~m.quitting
    /\ Dispatch(KeyMsg(key))

\* a command in flight completes and its message is dispatched
Complete(kind, t) ==
    /\ started /\ ~m.quitting
    /\ inflight[kind] > 0
    /\ \E r \in {Update(m, UpdateMsg(kind, t))} :
           /\ \E updated \in {r.m} : m' = View(updated)
           /\ inflight' = Launch([inflight EXCEPT ![kind] = inflight[kind] - 1], r.cmd)
    /\ UNCHANGED <<b, op, ret, panicked, downs, afterClear, started>>

NextRouter ==
    \/ ProgramStart
    \/ \E size \in TerminalSizes : Resize(size[1], size[2])
    \/ \E key \in Keys : Key(key)
    \/ \E kind \in CompletionKinds : \E t \in Times(kind) : Complete(kind, t)

SpecRouter == InitApp /\ [][NextRouter]_vars

\* the keys that request no refresh: the panes are refreshed once, by Init
NavigationKeys == Keys \ {"r", "ctrl+r"}

NextNavigate ==
    \/ ProgramStart
    \/ \E size \in TerminalSizes : Resize(size[1], size[2])
    \/ \E key \in NavigationKeys : Key(key)
    \/ \E kind \in CompletionKinds : \E t \in Times(kind) : Complete(kind, t)

\* the event loop while no refresh is requested by a key
SpecNavigate == InitApp /\ [][NextNavigate]_vars

----------------------------------------------------------------------------
(* The event loop in short terminals *)

\* terminal sizes whose detail window (height - 5 lines) is shorter than the
\* seven detail lines of an item: three lines, and none at all; in a terminal
\* of less than five rows the render of the details does not complete
DetailSizes == { <<80, 8>>, <<80, 5>> }

\* the keys that move focus, the detail cursor, the detail scroll position
\* and the active pane, and the quit key
DetailKeys == {" ", "j", "k", "g", "G", "tab", "q"}

NextDetails ==
    \/ ProgramStart
    \/ \E size \in DetailSizes : Resize(size[1], size[2])
    \/ \E key \in DetailKeys : Key(key)
    \/ \E kind \in CompletionKinds : \E t \in Times(kind) : Complete(kind, t)

\* the event loop in terminals too short to show the details of an item whole
SpecDetails == InitApp /\ [][NextDetails]_vars

----------------------------------------------------------------------------
(* The event loop with overlapping refreshes: every refresh may be requested
   again before its completion message has been dispatched *)

\* the keys that request a refresh, change the active pane or move a selection
RefreshKeys == {"r", "ctrl+r", "tab", "j"}

\* the clock readings the completion messages of overlapping refreshes carry
RefreshClock == {0, 1}

RefreshTimes(kind) == IF kind = "WorkspaceUpdateMsg" THEN RefreshClock ELSE {0}

RefreshKey(key) ==
    /\ started /\ ~m.quitting
    /\ DispatchWithin(KeyMsg(key), MaxOverlap)

NextRefresh ==
    \/ ProgramStart
    \/ \E size \in TerminalSizes : Resize(size[1], size[2])
    \/ \E key \in RefreshKeys : RefreshKey(key)
    \/ \E kind \in CompletionKinds : \E t \in RefreshTimes(kind) : Complete(kind, t)

SpecRefresh == InitApp /\ [][NextRefresh]_vars

----------------------------------------------------------------------------
(* The event loop under fair delivery of the completion messages *)

\* the runtime runs every command in a goroutine of its own and sends the
\* message it returns to the event loop, which dispatches the messages it
\* receives one by one for as long as the program runs: a command in flight
\* completes eventually
FairDelivery ==
    \A kind \in CompletionKinds : WF_vars(\E t \in Times(kind) : Complete(kind, t))

\* the keys that request a refresh, change the active pane or quit; a refresh
\* may be requested again while one is in flight
LoadingKeys == {"r", "ctrl+r", "tab", "q"}

NextLoading ==
    \/ ProgramStart
    \/ \E size \in TerminalSizes : Resize(size[1], size[2])
    \/ \E key \in LoadingKeys : RefreshKey(key)
    \/ \E kind \in CompletionKinds : \E t \in Times(kind) : Complete(kind, t)

SpecRouterFair == InitApp /\ [][NextLoading]_vars /\ FairDelivery

----------------------------------------------------------------------------
(* The event loop with the status bar of every frame *)

\* renderStatusBar: whether the slice expression panics and, when it does not,
\* the status line as its left text, the number of padding spaces and the
\* version tag
renderStatusBar(mm) ==
    LET currentPaneName == IF mm.activePane < Len(mm.panes)
                           THEN mm.panes[mm.activePane + 1].title
                           ELSE "Unknown"
        leftStatus == IF mm.focus = FocusDetails
                      THEN "Active: Details | Space: Back to panes | j/k: Scroll | q: Quit"
                      ELSE "Active: " \o currentPaneName \o
                           " | 1-2: Switch | Tab: Next | Space: Details | j/k: Scroll | q: Quit"
        rightStatus == "TUI101 v0.1.0"
        maxLeftLen == mm.width - Len(rightStatus) - 5
        cut == Len(leftStatus) > maxLeftLen
        high == maxLeftLen - 3
        panics == cut /\ (high < 0 \/ high > Len(leftStatus))
        left == IF cut THEN SubSeq(leftStatus, 1, high) \o "..." ELSE leftStatus
        padding == Max(0, mm.width - (Len(left) + Len(rightStatus)))
    IN  IF panics
        THEN [panics |-> TRUE, high |-> high, left |-> "", padding |-> 0, right |-> ""]
        ELSE [panics |-> FALSE, high |-> high, left |-> left, padding |-> padding,
              right |-> rightStatus]

\* the runtime hands msg_ to Update, starts the returned command and calls
\* View, which renders the frame unless the model is quitting or has no size;
\* a panic in the render ends the program
DispatchAndRender(msg_) ==
    /\ \E r \in {Update(m, msg_)} :
       \E after \in {View(r.m)} :
           /\ m' = after
           /\ IF r.cmd = Quit
              THEN inflight' = inflight
              ELSE /\ inflight' = Launch(inflight, r.cmd)
                   /\ \A k \in CompletionKinds : inflight'[k] <= MaxInFlight
           /\ IF after.quitting \/ after.width = 0 \/ after.height = 0
              THEN /\ ret' = << >>
                   /\ panicked' = FALSE
              ELSE \E bar \in {renderStatusBar(after)} :
                       /\ ret' = << bar >>
                       /\ panicked' = bar.panics
    /\ UNCHANGED <<b, op, downs, afterClear, started>>

\* the widest terminal of a resize event; the widths are 1..MaxWidth, the
\* height is that of TerminalSizes
MaxWidth == 102

\* the keys that change the active pane or the focus, or quit
StatusBarKeys == {"tab", " ", "q"}

ResizeAndRender(w, h) ==
    /\ started /\ ~m.quitting /\ ~panicked
    /\ DispatchAndRender(WindowSizeMsg(w, h))

KeyAndRender(key) ==
    /\ started /\ ~m.quitting /\ ~panicked
    /\ DispatchAndRender(KeyMsg(key))

CompleteAndRender(kind, t) ==
    /\ started /\ ~m.quitting /\ ~panicked
    /\ inflight[kind] > 0
    /\ \E r \in {Update(m, UpdateMsg(kind, t))} :
       \E after \in {View(r.m)} :
           /\ m' = after
           /\ inflight' = Launch([inflight EXCEPT ![kind] = inflight[kind] - 1], r.cmd)
           /\ IF after.width = 0 \/ after.height = 0
              THEN /\ ret' = << >>
                   /\ panicked' = FALSE
              ELSE \E bar \in {renderStatusBar(after)} :
                       /\ ret' = << bar >>
                       /\ panicked' = bar.panics
    /\ UNCHANGED <<b, op, downs, afterClear, started>>

NextStatusBar ==
    \/ ProgramStart
    \/ \E w \in 1..MaxWidth : \E size \in TerminalSizes : ResizeAndRender(w, size[2])
    \/ \E key \in StatusBarKeys : KeyAndRender(key)
    \/ \E kind \in CompletionKinds : \E t \in Times(kind) : CompleteAndRender(kind, t)

SpecStatusBar == InitApp /\ [][NextStatusBar]_vars

----------------------------------------------------------------------------
(* The event loop with the layout of every frame *)

\* renderLeftColumn: the indexes of the panes stacked in the left column, in
\* order, each with its active highlight
renderLeftColumn(mm) ==
    [k \in 1..Min(Len(mm.panes), 4) |->
        [index |-> k - 1,
         isActive |-> (k - 1 = mm.activePane /\ mm.focus = FocusLeftPanes)]]

\* renderScrollablePreviewContent: the bounds of the slice expression
\* previewLines[start:end], whether it panics, and whether one of the lines
\* shown carries the cursor
renderScrollablePreviewContent(mm, maxLines) ==
    LET previewLines == mm.details.lines
        scrollPos == mm.details.scrollPos
        end0 == scrollPos + maxLines
        end == IF end0 > Len(previewLines) THEN Len(previewLines) ELSE end0
        start0 == IF scrollPos >= Len(previewLines) THEN Len(previewLines) - 1 ELSE scrollPos
        start == IF start0 < 0 THEN 0 ELSE start0
    IN  IF Len(previewLines) = 0
        THEN [sliced |-> FALSE, panics |-> FALSE, start |-> 0, end |-> 0, n |-> 0,
              cursor |-> FALSE]
        ELSE [sliced |-> TRUE,
              panics |-> ~SliceInRange(start, end, Len(previewLines)),
              start |-> start, end |-> end, n |-> Len(previewLines),
              cursor |-> /\ mm.focus = FocusDetails
                         /\ start <= mm.details.selectedLine
                         /\ mm.details.selectedLine < end]

renderPreviewPane(mm, height_) ==
    [view |-> "details", index |-> -1, isActive |-> mm.focus = FocusDetails,
     content |-> renderScrollablePreviewContent(mm, height_ - 4)]

renderGreetingPane(mm) ==
    [view |-> IF Len(mm.panes) <= 3 THEN "none" ELSE "pane", index |-> 3,
     isActive |-> (mm.activePane = 3 /\ mm.focus = FocusLeftPanes),
     content |-> [sliced |-> FALSE, panics |-> FALSE, start |-> 0, end |-> 0, n |-> 0,
                  cursor |-> FALSE]]

renderRightColumn(mm, height_) ==
    IF mm.activePane = 3 /\ Len(mm.panes) > 3
    THEN renderGreetingPane(mm)
    ELSE renderPreviewPane(mm, height_)

\* renderLayout: the left column, the right column (as high as the terminal
\* less the status bar), then the status bar; a panic in a part ends the render
renderLayout(mm) ==
    LET right == renderRightColumn(mm, mm.height - 1)
    IN  [ left |-> renderLeftColumn(mm), right |-> right, focus |-> mm.focus,
          panics |-> right.content.panics \/ renderStatusBar(mm).panics ]

\* the runtime hands msg_ to Update, starts the returned command (fl is what
\* was in flight besides msg_) and calls View, which renders the layout unless
\* the model is quitting or has no size; a panic in the render ends the program
DispatchAndLayout(msg_, fl) ==
    /\ \E r \in {Update(m, msg_)} :
       \E after \in {View(r.m)} :
           /\ m' = after
           /\ IF r.cmd = Quit
              THEN inflight' = fl
              ELSE /\ inflight' = Launch(fl, r.cmd)
                   /\ \A k \in CompletionKinds : inflight'[k] <= MaxInFlight
           /\ IF after.quitting \/ after.width = 0 \/ after.height = 0
              THEN /\ ret' = << >>
                   /\ panicked' = FALSE
              ELSE \E frame \in {renderLayout(after)} :
                       /\ ret' = << frame >>
                       /\ panicked' = frame.panics
    /\ UNCHANGED <<b, op, downs, afterClear, started>>

\* terminal heights that show all seven detail lines, three of them, and
\* that leave less than no room for them
LayoutSizes == { <<80, 24>>, <<80, 8>>, <<80, 4>> }

\* the keys that change the active pane, the focus, the detail cursor and the
\* detail scroll position, and the quit key
LayoutKeys == {"tab", " ", "j", "G", "q"}

ResizeAndLayout(w, h) ==
    /\ started /\ ~m.quitting /\ ~panicked
    /\ DispatchAndLayout(WindowSizeMsg(w, h), inflight)

KeyAndLayout(key) ==
    /\ started /\ ~m.quitting /\ ~panicked
    /\ DispatchAndLayout(KeyMsg(key), inflight)

CompleteAndLayout(kind, t) ==
    /\ started /\ ~m.quitting /\ ~panicked
    /\ inflight[kind] > 0
    /\ DispatchAndLayout(UpdateMsg(kind, t), [inflight EXCEPT ![kind] = inflight[kind] - 1])

NextLayout ==
    \/ ProgramStart
    \/ \E size \in LayoutSizes : ResizeAndLayout(size[1], size[2])
    \/ \E key \in LayoutKeys : KeyAndLayout(key)
    \/ \E kind \in CompletionKinds : \E t \in Times(kind) : CompleteAndLayout(kind, t)

SpecLayout == InitApp /\ [][NextLayout]_vars

----------------------------------------------------------------------------

(* The git variant: the working directory and the repository it runs in *)

\* os.ReadDir: the entries of a directory, sorted by name; an unreadable path
\* has none
ReadDir(path) ==
    CASE path = "." -> << [Name |-> ".git", IsDir |-> TRUE],
                          [Name |-> "main.go", IsDir |-> FALSE],
                          [Name |-> "src", IsDir |-> TRUE] >>
      [] path = "src" -> << [Name |-> "files.go", IsDir |-> FALSE] >>
      [] OTHER -> << >>

\* os.Stat(path) succeeds and reports a directory
StatIsDir(path) == path \in {".", ".git", "src"}

\* filepath.Join of a directory and an entry name
JoinPath(dir, name) == IF dir = "." THEN name ELSE dir \o "/" \o name

\* the output of git status --porcelain for one path: main.go is untracked,
\* everything else is clean
PorcelainLine(path) == IF path = "main.go" THEN "?? main.go" ELSE ""

GetFileStatus(path) ==
    LET line == PorcelainLine(path)
    IN  IF Len(line) < 2 THEN ""
        ELSE LET indexStatus == SubSeq(line, 1, 1)
                 workTreeStatus == SubSeq(line, 2, 2)
             IN  CASE workTreeStatus = "?" -> "untracked"
                   [] workTreeStatus = "M" -> "modified"
                   [] workTreeStatus = "D" -> "deleted"
                   [] indexStatus = "A" -> "added"
                   [] indexStatus = "M" -> "staged"
                   [] indexStatus = "D" -> "staged_deleted"
                   [] indexStatus = "R" -> "renamed"
                   [] indexStatus = "C" -> "copied"
                   [] OTHER -> ""

\* the lines of os.ReadFile(path), split at newlines
FileLines(path) ==
    CASE path = "main.go" -> <<"package main", "">>
      [] path = "src/files.go" -> <<"package panes", "">>
      [] OTHER -> << >>

\* the lines git diff prints for an argument: nothing for an untracked or
\* clean path, the changes since the commit for the older commit's hash
GitDiffOutput(arg) ==
    IF arg = "a1b2c3d"
    THEN << "diff --git a/src/files.go b/src/files.go", "--- a/src/files.go",
            "+++ b/src/files.go", "@@ -1 +1 @@", "-package main", "+package panes" >>
    ELSE << >>

\* Repository.getFileContentAsAddition, as the lines strings.Split makes of it
getFileContentAsAddition(path) ==
    IF FileLines(path) = << >> \/ StatIsDir(path)
    THEN <<"">>
    ELSE << "diff --git a/" \o path \o " b/" \o path,
            "new file mode 100644",
            "index 0000000..0000000",
            "--- /dev/null",
            "+++ b/" \o path,
            "@@ -0,0 +1," \o ToString(Len(FileLines(path))) \o " @@" >>
         \o [i \in 1..Len(FileLines(path)) |-> "+" \o FileLines(path)[i]]

\* Repository.GetFileDiff, as the lines strings.Split makes of it
GetFileDiff(path) ==
    IF GitDiffOutput(path) # << >>
    THEN GitDiffOutput(path)
    ELSE IF GetFileStatus(path) \in {"untracked", ""}
    THEN getFileContentAsAddition(path)
    ELSE <<"">>

\* Repository.GetStatus: one untracked file, no upstream
GetStatus ==
    [ Branch |-> "main", Upstream |-> "", AheadBy |-> 0, BehindBy |-> 0,
      StagedFiles |-> 0, ModifiedFiles |-> 0, UntrackedFiles |-> 1, Dirty |-> TRUE ]

GetCurrentBranch == "main"

GetUpstreamInfo == ""

\* Repository.GetBranches: the local branches, then the remote ones
GetBranches ==
    << [Name |-> "main", IsCurrent |-> TRUE, IsRemote |-> FALSE],
       [Name |-> "dev", IsCurrent |-> FALSE, IsRemote |-> FALSE],
       [Name |-> "origin/main", IsCurrent |-> FALSE, IsRemote |-> TRUE] >>

\* git log --oneline, newest first; the Date of a commit is left out
RepositoryLog ==
    << [ShortHash |-> "b2c3d4e", Hash |-> "b2c3d4e", Author |-> "AR",
        Message |-> <<"M", "e", "r", "g", "e", " ", "d", "e", "v">>],
       [ShortHash |-> "a1b2c3d", Hash |-> "a1b2c3d", Author |-> "AR",
        Message |-> <<"i", "n", "i", "t">>] >>

GetCommits(limit) == SubSeq(RepositoryLog, 1, Min(Max(limit, 0), Len(RepositoryLog)))

\* Repository.GetStashes: nothing is stashed
GetStashes == << >>

----------------------------------------------------------------------------
(* The git variant: its five panes *)

\* Refresh of a pane whose closure produces a message of the given kind
GitRefresh(p, kind) == [p |-> SetLoading(p, TRUE), cmd |-> <<kind>>]

loadStatusInfo(s) ==
    LET branch == GetCurrentBranch
        first == IF branch # ""
                 THEN PaneItem("TUI101 → " \o branch, branch, "branch")
                 ELSE PaneItem("TUI101 (detached HEAD)", "HEAD", "branch")
        second == IF GetStatus.Dirty
                  THEN PaneItem("Working tree has changes", "dirty", "status")
                  ELSE PaneItem("Working tree clean", "clean", "status")
        upstream == GetUpstreamInfo
    IN  AddItems(Clear(s),
                 <<first, second>>
                 \o (IF upstream # ""
                     THEN << PaneItem(upstream, upstream, "upstream") >>
                     ELSE << >>))

NewGitStatusPane == loadStatusInfo(NewBasePaneModel("Status", "status"))

\* string(rune(n)): the one character whose code point is n
RuneString(n) == "\\u" \o ToString(n)

updateFromGitStatus(s, msg_) ==
    LET status == msg_.Status
        branch == IF status.Branch # ""
                  THEN << PaneItem("TUI101 → " \o status.Branch, status.Branch, "branch") >>
                  ELSE << >>
        changesText == IF status.ModifiedFiles > 0
                       THEN "Working tree has changes"
                            \o " (" \o RuneString(status.ModifiedFiles) \o " modified)"
                       ELSE "Working tree has changes"
        changes == IF status.Dirty
                   THEN PaneItem(changesText, "dirty", "status")
                   ELSE PaneItem("Working tree clean", "clean", "status")
        ahead == IF status.AheadBy > 0
                 THEN " (ahead " \o RuneString(status.AheadBy) \o ")" ELSE ""
        behind == IF status.BehindBy > 0
                  THEN " (behind " \o RuneString(status.BehindBy) \o ")" ELSE ""
        upstream == IF status.Upstream # ""
                    THEN << PaneItem(status.Upstream \o ahead \o behind,
                                     status.Upstream, "upstream") >>
                    ELSE << >>
    IN  AddItems(Clear(SetLoading(s, FALSE)), branch \o <<changes>> \o upstream)

GitStatusHandleAction(s, action) ==
    CASE action = "toggle" -> [p |-> s, cmd |-> Nil]
      [] action = "fetch" -> [p |-> s, cmd |-> <<"StatusUpdateMsg">>]
      [] OTHER -> [p |-> s, cmd |-> Nil]

GitStatusPaneUpdate(s, msg_) ==
    IF msg_.type = "KeyMsg"
    THEN IF ~s.active THEN [p |-> s, cmd |-> Nil]
         ELSE CASE msg_.key = "r" -> GitRefresh(s, "StatusUpdateMsg")
                [] msg_.key = "enter" -> GitStatusHandleAction(s, "toggle")
                [] OTHER -> [p |-> s, cmd |-> Nil]
    ELSE IF msg_.type = "StatusUpdateMsg"
    THEN [p |-> updateFromGitStatus(s, msg_), cmd |-> Nil]
    ELSE [p |-> s, cmd |-> Nil]

\* strings.HasPrefix(name, "."), the test for a hidden entry
IsHidden(name) == Len(name) > 0 /\ SubSeq(name, 1, 1) = "."

\* the entries of the pane's directory that a listing keeps
ListedEntries(f) ==
    LET entries == ReadDir(f.currentPath)
        capped == IF Len(entries) > f.maxFiles THEN SubSeq(entries, 1, f.maxFiles) ELSE entries
        Shown(entry) == f.showHidden \/ ~IsHidden(entry.Name)
    IN  SelectSeq(capped, Shown)

getFileTypeSafe(path) == IF GetFileStatus(path) # "" THEN GetFileStatus(path) ELSE "untracked"

IsDirEntry(entry) == entry.IsDir

IsFileEntry(entry) == ~entry.IsDir

\* FilesPane.loadFiles, for a readable directory of at most maxFiles entries:
\* the parent entry, the directories, then the files
loadFiles(f) ==
    LET parent == IF f.currentPath # "." /\ f.currentPath # ""
                  THEN << PaneItem("../", "..", "directory") >>
                  ELSE << >>
        directories == SelectSeq(ListedEntries(f), IsDirEntry)
        files == SelectSeq(ListedEntries(f), IsFileEntry)
    IN  AddItems(Clear(f),
                 parent
                 \o [i \in 1..Len(directories) |->
                        PaneItem(directories[i].Name \o "/",
                                 JoinPath(f.currentPath, directories[i].Name),
                                 "directory")]
                 \o [i \in 1..Len(files) |->
                        PaneItem(files[i].Name,
                                 JoinPath(f.currentPath, files[i].Name),
                                 getFileTypeSafe(JoinPath(f.currentPath, files[i].Name)))])

\* FilesPane.loadDirectoryContents: the git.FileInfo records of the pane's
\* current directory, in the order of os.ReadDir
loadDirectoryContents(f) ==
    LET entries == ListedEntries(f)
    IN  [i \in 1..Len(entries) |->
            [ Name |-> entries[i].Name,
              Path |-> JoinPath(f.currentPath, entries[i].Name),
              IsDir |-> entries[i].IsDir,
              Status |-> GetFileStatus(JoinPath(f.currentPath, entries[i].Name)) ]]

NewFilesPane == loadFiles(FilesPaneOf(NewBasePaneModel("Files", "files"), ".", FALSE))

\* BranchesPane.loadBranches: local branches, remote branches, placeholder tags
loadBranches(bp) ==
    LET branches == GetBranches
        locals == SelectSeq(branches, IsLocalBranch)
        remotes == SelectSeq(branches, IsRemoteBranch)
        tags == <<"v1.0.0", "v1.1.0", "v2.0.0-beta">>
    IN  AddItems(Clear(bp),
                 [i \in 1..Len(locals) |->
                     PaneItem(locals[i].Name, locals[i].Name,
                              IF locals[i].IsCurrent THEN "current" ELSE "local")]
                 \o (IF bp.showRemote
                     THEN [i \in 1..Len(remotes) |->
                              PaneItem(remotes[i].Name, remotes[i].Name, "remote")]
                     ELSE << >>)
                 \o (IF bp.showTags
                     THEN [i \in 1..Len(tags) |-> PaneItem(tags[i], tags[i], "tag")]
                     ELSE << >>))

NewGitBranchesPane ==
    loadBranches(BranchesPaneOf(NewBasePaneModel("Branches", "branches"), TRUE, TRUE))

BranchesHandleAction(bp, action) ==
    IF GetSelectedItem(bp) = << >>
    THEN [p |-> bp, cmd |-> Nil]
    ELSE CASE action \in {"checkout", "create_branch", "delete_branch", "merge",
                          "rebase", "pull", "push"} ->
                [p |-> bp, cmd |-> <<"ActionCompleteMsg">>]
           [] action = "fetch" -> [p |-> bp, cmd |-> <<"fetchBranches">>]
           [] OTHER -> [p |-> bp, cmd |-> Nil]

\* the switch on the key of an active BranchesPane
BranchesPaneKey(bp, key) ==
    CASE key \in {"j", "down"} -> [p |-> MoveDown(bp), cmd |-> Nil]
      [] key \in {"k", "up"} -> [p |-> MoveUp(bp), cmd |-> Nil]
      [] key = "g" -> [p |-> MoveToTop(bp), cmd |-> Nil]
      [] key = "G" -> [p |-> MoveToBottom(bp), cmd |-> Nil]
      [] key = "enter" -> BranchesHandleAction(bp, "checkout")
      [] key = "c" -> BranchesHandleAction(bp, "create_branch")
      [] key = "d" -> BranchesHandleAction(bp, "delete_branch")
      [] key = "r" -> GitRefresh(bp, "BranchesUpdateMsg")
      [] key = "m" -> BranchesHandleAction(bp, "merge")
      [] key = "R" -> BranchesHandleAction(bp, "rebase")
      [] key = "p" -> BranchesHandleAction(bp, "pull")
      [] key = "P" -> BranchesHandleAction(bp, "push")
      [] key = "t" -> GitRefresh([bp EXCEPT !.showTags = ~bp.showTags], "BranchesUpdateMsg")
      [] key = "o" -> GitRefresh([bp EXCEPT !.showRemote = ~bp.showRemote], "BranchesUpdateMsg")
      [] key = "f" -> BranchesHandleAction(bp, "fetch")
      [] OTHER -> [p |-> bp, cmd |-> Nil]

BranchesPaneUpdate(bp, msg_) ==
    IF msg_.type = "KeyMsg"
    THEN IF ~bp.active THEN [p |-> bp, cmd |-> Nil] ELSE BranchesPaneKey(bp, msg_.key)
    ELSE IF msg_.type = "BranchesUpdateMsg"
    THEN [p |-> updateFromBranchesMsg(bp, msg_), cmd |-> Nil]
    ELSE [p |-> bp, cmd |-> Nil]

loadCommits(c) ==
    LET commits == GetCommits(c.limit)
    IN  AddItems(Clear(c), [i \in 1..Len(commits) |-> CommitItem(commits[i])])

NewGitCommitsPane ==
    loadCommits(CommitsPaneOf(NewBasePaneModel("Commits", "commits"), FALSE, 50))

loadStashes(sp) ==
    LET stashes == GetStashes
    IN  IF Len(stashes) = 0
        THEN AddItem(Clear(sp), PaneItem("No stashed changes", "", "empty"))
        ELSE AddItems(Clear(sp), [i \in 1..Len(stashes) |-> StashItem(i - 1, stashes[i])])

NewGitStashPane == loadStashes(NewBasePaneModel("Stash", "stash"))

StashHandleAction(sp, action) ==
    LET none == GetSelectedItem(sp) = << >>
    IN  CASE action \in {"create_stash", "create_stash_include_untracked",
                         "clear_all_stashes"} ->
                [p |-> sp, cmd |-> <<"ActionCompleteMsg">>]
          [] action \in {"apply_stash", "pop_stash", "drop_stash",
                         "create_branch_from_stash"} ->
                [p |-> sp, cmd |-> IF none THEN Nil ELSE <<"ActionCompleteMsg">>]
          [] action = "show_stash" ->
                [p |-> sp, cmd |-> IF none THEN Nil ELSE <<"DiffUpdateMsg">>]
          [] OTHER -> [p |-> sp, cmd |-> Nil]

\* the switch on the key of an active StashPane
StashPaneKey(sp, key) ==
    CASE key \in {"j", "down"} -> [p |-> MoveDown(sp), cmd |-> Nil]
      [] key \in {"k", "up"} -> [p |-> MoveUp(sp), cmd |-> Nil]
      [] key = "g" -> [p |-> MoveToTop(sp), cmd |-> Nil]
      [] key = "G" -> [p |-> MoveToBottom(sp), cmd |-> Nil]
      [] key = "enter" -> StashHandleAction(sp, "apply_stash")
      [] key = "p" -> StashHandleAction(sp, "pop_stash")
      [] key = "d" -> StashHandleAction(sp, "drop_stash")
      [] key = "s" -> StashHandleAction(sp, "create_stash")
      [] key = "S" -> StashHandleAction(sp, "create_stash_include_untracked")
      [] key = "r" -> GitRefresh(sp, "StashUpdateMsg")
      [] key = "v" -> StashHandleAction(sp, "show_stash")
      [] key = "D" -> StashHandleAction(sp, "clear_all_stashes")
      [] key = "b" -> StashHandleAction(sp, "create_branch_from_stash")
      [] OTHER -> [p |-> sp, cmd |-> Nil]

StashPaneUpdate(sp, msg_) ==
    IF msg_.type = "KeyMsg"
    THEN IF ~sp.active THEN [p |-> sp, cmd |-> Nil] ELSE StashPaneKey(sp, msg_.key)
    ELSE IF msg_.type = "StashUpdateMsg"
    THEN [p |-> updateFromStashMsg(sp, msg_), cmd |-> Nil]
    ELSE [p |-> sp, cmd |-> Nil]

\* Pane.Update and Pane.Init of the git variant, dispatched on the concrete pane
GitPaneUpdate(p, msg_) ==
    CASE p.id = "status" -> GitStatusPaneUpdate(p, msg_)
      [] p.id = "files" -> FilesPaneUpdate(p, msg_)
      [] p.id = "branches" -> BranchesPaneUpdate(p, msg_)
      [] p.id = "commits" -> CommitsPaneUpdate(p, msg_)
      [] p.id = "stash" -> StashPaneUpdate(p, msg_)

GitPaneRefresh(p) ==
    CASE p.id = "status" -> GitRefresh(p, "StatusUpdateMsg")
      [] p.id = "files" -> FilesRefresh(p)
      [] p.id = "branches" -> GitRefresh(p, "BranchesUpdateMsg")
      [] p.id = "commits" -> CommitsRefresh(p)
      [] p.id = "stash" -> GitRefresh(p, "StashUpdateMsg")

GitPaneInit(p) == GitPaneRefresh(p)

----------------------------------------------------------------------------
(* The git variant: app.Model and the event loop around it *)

NewGitModel ==
    [ panes |-> << NewGitStatusPane, NewFilesPane, NewGitBranchesPane,
                   NewGitCommitsPane, NewGitStashPane >>,
      activePane |-> 1, width |-> 0, height |-> 0, quitting |-> FALSE,
      diffScrollPos |-> 0, diffLines |-> << >> ]

GitModelInit(mm) ==
    LET results == [i \in 1..Len(mm.panes) |-> GitPaneInit(mm.panes[i])]
    IN  [m |-> [mm EXCEPT !.panes = PanesOf(results)], cmd |-> Batch(CmdsOf(results))]

scrollDiffDown(mm) ==
    IF Len(mm.diffLines) > 0
    THEN LET maxScroll == Max(0, Len(mm.diffLines) - (mm.height - 5))
         IN  IF mm.diffScrollPos < maxScroll
             THEN [mm EXCEPT !.diffScrollPos = mm.diffScrollPos + 1]
             ELSE mm
    ELSE mm

scrollDiffUp(mm) ==
    IF mm.diffScrollPos > 0 THEN [mm EXCEPT !.diffScrollPos = mm.diffScrollPos - 1] ELSE mm

GitRefreshAll(mm) ==
    LET results == [i \in 1..Len(mm.panes) |-> GitPaneRefresh(mm.panes[i])]
    IN  [m |-> [mm EXCEPT !.panes = PanesOf(results)], cmd |-> Batch(CmdsOf(results))]

\* Model.handleKeyMsg of the git variant; tea.Batch() without commands is nil
GitHandleKeyMsg(mm, key) ==
    CASE key \in {"q", "ctrl+c"} -> [m |-> [mm EXCEPT !.quitting = TRUE], cmd |-> Quit]
      [] key = "tab" -> [m |-> nextPane(mm), cmd |-> Batch(<< >>)]
      [] key = "shift+tab" -> [m |-> prevPane(mm), cmd |-> Batch(<< >>)]
      [] key = "1" -> [m |-> setActivePane(mm, 0), cmd |-> Batch(<< >>)]
      [] key = "2" -> [m |-> setActivePane(mm, 1), cmd |-> Batch(<< >>)]
      [] key = "3" -> [m |-> setActivePane(mm, 2), cmd |-> Batch(<< >>)]
      [] key = "4" -> [m |-> setActivePane(mm, 3), cmd |-> Batch(<< >>)]
      [] key = "5" -> [m |-> setActivePane(mm, 4), cmd |-> Batch(<< >>)]
      [] key = "ctrl+r" -> GitRefreshAll(mm)
      [] key = "?" -> [m |-> mm, cmd |-> Batch(<< >>)]
      [] key \in {"j", "down"} ->
            IF mm.activePane # 4
            THEN [m |-> scrollDiffDown(mm), cmd |-> Batch(<< >>)]
            ELSE [m |-> mm, cmd |-> Nil]
      [] key \in {"k", "up"} ->
            IF mm.activePane # 4
            THEN [m |-> scrollDiffUp(mm), cmd |-> Batch(<< >>)]
            ELSE [m |-> mm, cmd |-> Nil]
      [] OTHER -> [m |-> mm, cmd |-> Nil]

GitUpdate(mm, msg_) ==
    IF msg_.type = "WindowSizeMsg"
    THEN [m |-> [mm EXCEPT !.width = msg_.Width, !.height = msg_.Height], cmd |-> Nil]
    ELSE IF msg_.type = "KeyMsg"
    THEN LET handled == GitHandleKeyMsg(mm, msg_.key)
             m1 == handled.m
         IN  IF handled.cmd # Nil
             THEN handled
             ELSE IF m1.activePane < Len(m1.panes)
             THEN LET r == GitPaneUpdate(m1.panes[m1.activePane + 1], msg_)
                  IN  [m |-> [m1 EXCEPT !.panes[m1.activePane + 1] = r.p],
                       cmd |-> Batch(<< r.cmd >>)]
             ELSE [m |-> m1, cmd |-> Batch(<< >>)]
    ELSE LET results == [i \in 1..Len(mm.panes) |-> GitPaneUpdate(mm.panes[i], msg_)]
         IN  [m |-> [mm EXCEPT !.panes = PanesOf(results)], cmd |-> Batch(CmdsOf(results))]

getSelectedItemForDiff(mm) ==
    IF mm.activePane >= Len(mm.panes) THEN ""
    ELSE LET selectedItem == GetSelectedItem(mm.panes[mm.activePane + 1])
         IN  IF selectedItem = << >> THEN "" ELSE selectedItem[1].Value

\* strings.HasSuffix(str, "/")
EndsWithSlash(str) == Len(str) > 0 /\ SubSeq(str, Len(str), Len(str)) = "/"

\* Model.getRealGitDiff, as the lines strings.Split makes of its result
getRealGitDiff(mm, filepath) ==
    IF EndsWithSlash(filepath) \/ filepath = ".."
    THEN <<"Directory selected - no diff to show">>
    ELSE IF StatIsDir(filepath)
    THEN <<"Directory selected - no diff to show">>
    ELSE IF mm.activePane = 1 \/ mm.activePane = 3
    THEN GetFileDiff(filepath)
    ELSE <<"">>

GitUpdateDiffContent(mm) ==
    LET selectedItem == getSelectedItemForDiff(mm)
    IN  IF selectedItem # ""
        THEN [mm EXCEPT !.diffLines = getRealGitDiff(mm, selectedItem)]
        ELSE [mm EXCEPT !.diffLines = <<"Select a file to see diff">>]

GitView(mm) ==
    IF mm.quitting THEN mm
    ELSE IF mm.width = 0 \/ mm.height = 0 THEN mm
    ELSE LET m1 == IF mm.activePane >= Len(mm.panes) THEN [mm EXCEPT !.activePane = 0] ELSE mm
             m2 == [m1 EXCEPT !.panes = [i \in 1..Len(m1.panes) |->
                                            SetActive(m1.panes[i], i - 1 = m1.activePane)]]
         IN  GitUpdateDiffContent(m2)

\* the kinds of closure a pane of the git variant hands to the runtime
ClosureKinds ==
    { "StatusUpdateMsg", "FilesUpdateMsg", "BranchesUpdateMsg", "CommitsUpdateMsg",
      "StashUpdateMsg", "stageFile", "unstageFile", "fetchBranches", "DiffUpdateMsg",
      "ActionCompleteMsg" }

FilesUpdateMsg(f) ==
    [type |-> "FilesUpdateMsg", Files |-> loadDirectoryContents(f), Path |-> f.currentPath]

BranchesUpdateMsg == [type |-> "BranchesUpdateMsg", Branches |-> GetBranches]

\* the messages a closure of the given kind can return when it runs while the
\* model is mm: the closure holds a pointer to its pane and reads the pane's
\* fields when it runs; git add, git reset and git fetch can fail
ClosureOutcomes(kind, mm) ==
    CASE kind = "StatusUpdateMsg" -> { [type |-> "StatusUpdateMsg", Status |-> GetStatus] }
      [] kind = "FilesUpdateMsg" -> { FilesUpdateMsg(mm.panes[2]) }
      [] kind = "BranchesUpdateMsg" -> { BranchesUpdateMsg }
      [] kind = "CommitsUpdateMsg" ->
            { [type |-> "CommitsUpdateMsg", Commits |-> GetCommits(mm.panes[4].limit)] }
      [] kind = "StashUpdateMsg" -> { [type |-> "StashUpdateMsg", Stashes |-> GetStashes] }
      [] kind \in {"stageFile", "unstageFile"} -> { ErrorMsg, FilesUpdateMsg(mm.panes[2]) }
      [] kind = "fetchBranches" -> { ErrorMsg, BranchesUpdateMsg }
      [] kind = "DiffUpdateMsg" -> { UpdateMsg("DiffUpdateMsg", 0) }
      [] kind = "ActionCompleteMsg" -> { ActionCompleteMsg }

RECURSIVE Started(_, _, _)
\* the closures of cmd handed to the runtime while the model is mm, each with
\* the messages it would return if it ran at once
Started(work, cmd, mm) ==
    IF cmd = << >> THEN work
    ELSE Started(work (+) SetToBag({ [cmd |-> Head(cmd),
                                      want |-> ClosureOutcomes(Head(cmd), mm)] }),
                 Tail(cmd), mm)

\* the closures and messages of one kind in flight
InFlightOf(fl, kind) ==
    BagCardinality([x \in {y \in DOMAIN fl.work : y.cmd = kind} |-> fl.work[x]])
    + BagCardinality([x \in {y \in DOMAIN fl.mail : y.cmd = kind} |-> fl.mail[x]])

\* tea.NewProgram(model).Run(): Init, then the first render
GitProgramStart ==
    /\ ~started
    /\ started' = TRUE
    /\ \E r \in {GitModelInit(m)} :
           /\ m' = GitView(r.m)
           /\ inflight' = [inflight EXCEPT !.work = Started(inflight.work, r.cmd, r.m)]
    /\ UNCHANGED <<b, op, ret, panicked, downs, afterClear>>

\* the runtime hands msg_ to Update, starts the goroutines of the returned
\* command and renders; fl is what was in flight besides msg_
GitDispatch(msg_, fl) ==
    \E r \in {GitUpdate(m, msg_)} :
        /\ m' = GitView(r.m)
        /\ IF r.cmd = Quit
           THEN inflight' = fl
           ELSE /\ inflight' = [fl EXCEPT !.work = Started(fl.work, r.cmd, r.m)]
                /\ \A kind \in ClosureKinds : InFlightOf(inflight', kind) <= MaxWork
        /\ UNCHANGED <<b, op, ret, panicked, downs, afterClear, started>>

GitResize(w, h) ==
    /\ started /\ ~m.quitting
    /\ GitDispatch(WindowSizeMsg(w, h), inflight)

GitKey(key) ==
    /\ started /\ ~m.quitting
    /\ GitDispatch(KeyMsg(key), inflight)

\* the goroutine of one command runs its closure, at any time after the
\* command was returned, concurrently with the event loop
GitExecute ==
    /\ started /\ ~m.quitting
    /\ \E x \in BagToSet(inflight.work) :
           \E msg_ \in ClosureOutcomes(x.cmd, m) :
               inflight' = [ work |-> inflight.work (-) SetToBag({x}),
                             mail |-> inflight.mail
                                      (+) SetToBag({ [cmd |-> x.cmd, want |-> x.want,
                                                      msg |-> msg_] }) ]
    /\ UNCHANGED <<b, op, ret, panicked, downs, afterClear, m, started>>

\* the event loop receives a message a goroutine has produced
GitDeliver ==
    /\ started /\ ~m.quitting
    /\ \E y \in BagToSet(inflight.mail) :
           GitDispatch(y.msg, [inflight EXCEPT !.mail = inflight.mail (-) SetToBag({y})])

\* the keys of the Files pane that change what a listing reads, a move of the
\* selection and the quit key
GitKeys == {"j", "l", "h", ".", "q"}

InitGit ==
    /\ b = NewBasePaneModel("List", "list")
    /\ op = [name |-> "NewBasePaneModel", index |-> 0, query |-> << >>, n |-> 0]
    /\ ret = << >>
    /\ panicked = FALSE
    /\ downs = 0
    /\ afterClear = FALSE
    /\ m = NewGitModel
    /\ inflight = [work |-> EmptyBag, mail |-> EmptyBag]
    /\ started = FALSE

NextGit ==
    \/ GitProgramStart
    \/ \E size \in TerminalSizes : GitResize(size[1], size[2])
    \/ \E key \in GitKeys : GitKey(key)
    \/ GitExecute
    \/ GitDeliver

\* the git variant with its goroutines
SpecGit == InitGit /\ [][NextGit]_vars

\* the event loop receives a message a goroutine has produced, as GitDeliver;
\* ret keeps the Path of the last FilesUpdateMsg handed to Update
FilesDeliver ==
    /\ started /\ ~m.quitting
    /\ \E y \in BagToSet(inflight.mail) :
       \E r \in {GitUpdate(m, y.msg)} :
           /\ m' = GitView(r.m)
           /\ inflight' = [ work |-> Started(inflight.work, r.cmd, r.m),
                            mail |-> inflight.mail (-) SetToBag({y}) ]
           /\ \A kind \in ClosureKinds : InFlightOf(inflight', kind) <= MaxWork
           /\ ret' = IF y.msg.type = "FilesUpdateMsg" THEN << y.msg.Path >> ELSE ret
    /\ UNCHANGED <<b, op, panicked, downs, afterClear, started>>

\* the keys of the Files pane that enter a directory and leave it, and the
\* quit key
FilesKeys == {"l", "h", "q"}

NextFiles ==
    \/ GitProgramStart
    \/ \E size \in TerminalSizes : GitResize(size[1], size[2])
    \/ \E key \in FilesKeys : GitKey(key)
    \/ GitExecute
    \/ FilesDeliver

\* the git variant with its goroutines, with the directory of the listing the
\* Files pane shows
SpecFiles == InitGit /\ [][NextFiles]_vars

----------------------------------------------------------------------------
(* Properties of the list model *)

N == Len(b.items)

InWindow(p) ==
    /\ 0 <= p.scrollOffset
    /\ p.scrollOffset <= p.selectedIndex
    /\ p.selectedIndex <= p.scrollOffset + p.maxDisplayItems - 1

\* C1: on a list of N > 0 items every MoveDown / MoveUp leaves selectedIndex
\* in [0, N-1]; MoveDown goes from N-1 to 0 and otherwise adds 1, MoveUp goes
\* from 0 to N-1 and otherwise subtracts 1.
C1_MoveWraps ==
    [][ (op'.name \in {"MoveDown", "MoveUp"} /\ N > 0) =>
            /\ b'.items = b.items
            /\ b'.selectedIndex \in 0..(N - 1)
            /\ op'.name = "MoveDown" =>
                   b'.selectedIndex = IF b.selectedIndex = N - 1 THEN 0 ELSE b.selectedIndex + 1
            /\ op'.name = "MoveUp" =>
                   b'.selectedIndex = IF b.selectedIndex = 0 THEN N - 1 ELSE b.selectedIndex - 1
      ]_vars

\* MoveDown from the last of three or more items has wrapped to the first
C1_Witness == op.name = "MoveDown" /\ N >= 3 /\ b.selectedIndex = 0 /\ downs = 0 /\ op.n = N

\* C2: with a fixed window size W >= 1, in every state with a non-empty list
\* 0 <= scrollOffset <= selectedIndex <= scrollOffset + W - 1.
C2_SelectionInWindow == N > 0 => InWindow(b)

\* an item was removed from a list that is scrolled down
C2_Witness == op.name = "RemoveItem" /\ op.n = N + 1 /\ b.scrollOffset > 0 /\ b.maxDisplayItems >= 1

\* C3: in every state, also after SetMaxDisplayItems with any integer,
\* GetVisibleItems slices the items within range and returns at most
\* maxDisplayItems items (none for a window size below 1), each one an item
\* of the stored sequence.
C3_VisibleWindowSafe ==
    /\ ~panicked
    /\ op.name = "GetVisibleItems" =>
          /\ Len(ret) <= Max(0, b.maxDisplayItems)
          /\ N > 0 => SliceInRange(VisibleBounds(b).start, VisibleBounds(b).end, N)
          /\ \A i \in 1..Len(ret) : \E j \in 1..N : ret[i] = b.items[j]

\* C4: k < N MoveDown calls after selectedIndex = scrollOffset = 0 leave
\* selectedIndex = k, scrollOffset = max(0, k - W + 1) and the visible items
\* items[scrollOffset .. min(scrollOffset + W, N) - 1].
C4_MoveDownScrolls ==
    (downs >= 0 /\ downs < N) =>
        /\ b.selectedIndex = downs
        /\ b.scrollOffset = Max(0, downs - b.maxDisplayItems + 1)
        /\ GetVisibleItems(b) =
               [i \in 1..(Min(b.scrollOffset + b.maxDisplayItems, N) - b.scrollOffset) |->
                    b.items[b.scrollOffset + i]]

\* four MoveDown calls on five items with a window of three
C4_Witness ==
    /\ downs = 4 /\ N = 5 /\ b.maxDisplayItems = 3
    /\ b.selectedIndex = 4 /\ b.scrollOffset = 2
    /\ GetVisibleItems(b) = <<ItemC, ItemD, ItemE>>

\* C5: after Clear, however many MoveDown / MoveUp calls follow, the list is
\* empty with selectedIndex = 0 and scrollOffset = 0 and nothing was indexed.
C5_MovesAfterClear ==
    afterClear => (N = 0 /\ b.selectedIndex = 0 /\ b.scrollOffset = 0 /\ ~panicked)

\* a MoveUp on the list emptied by Clear
C5_Witness == afterClear /\ op.name = "MoveUp" /\ op.n = 0

\* C6: RemoveItem(i) in bounds removes exactly item i and keeps the others in
\* order; selectedIndex is then a valid index, or 0 on the emptied list, where
\* MoveDown changes nothing.  Out of bounds it changes nothing.
C6_RemoveItem ==
    [][ op'.name = "RemoveItem" =>
            IF op'.index >= 0 /\ op'.index < N
            THEN /\ b'.items = [j \in 1..(N - 1) |->
                                   IF j <= op'.index THEN b.items[j] ELSE b.items[j + 1]]
                 /\ N > 1 => b'.selectedIndex \in 0..(N - 2)
                 /\ N = 1 => (b'.selectedIndex = 0 /\ MoveDown(b') = b')
            ELSE b' = b
      ]_vars

\* the only item, which was selected, has been removed
C6_Witness == op.name = "RemoveItem" /\ op.n = 1 /\ op.index = 0 /\ N = 0

\* C7: SelectItem(i) selects i when 0 <= i < len(items) and otherwise leaves
\* the model unchanged.
C7_SelectItem ==
    [][ op'.name = "SelectItem" =>
            IF op'.index >= 0 /\ op'.index < N
            THEN b'.selectedIndex = op'.index /\ b'.items = b.items
            ELSE b' = b /\ ~panicked'
      ]_vars

\* SelectItem(len(items)) on a non-empty list was ignored
C7_Witness == op.name = "SelectItem" /\ op.index = N /\ N > 0 /\ b.selectedIndex # op.index

SameLetter(c, d) == c = d \/ <<c, d>> \in CasePairs \/ <<d, c>> \in CasePairs

\* q occurs in s at some offset, letters compared without regard to case
OccursIgnoringCase(s, q) ==
    \E i \in 0..(Len(s) - Len(q)) : \A j \in 1..Len(q) : SameLetter(s[i + j], q[j])

\* C8: Filter(q) returns, in stored order, exactly the items whose Display or
\* Value contains q case-insensitively, and every item for the empty query.
C8_FilterMatches ==
    op.name = "Filter" =>
        /\ ret = SelectSeq(b.items, LAMBDA item : OccursIgnoringCase(item.Display, op.query)
                                                  \/ OccursIgnoringCase(item.Value, op.query))
        /\ op.query = << >> => ret = b.items

\* an upper-case query selected the one item that holds it in lower case
C8_Witness ==
    /\ op.name = "Filter" /\ op.query = <<"F", "E">>
    /\ b.items = <<ItemA, ItemB, ItemC>> /\ ret = <<ItemB>>

\* C9: Filter leaves the stored items, selectedIndex and scrollOffset unchanged.
C9_FilterFrame ==
    [][ op'.name = "Filter" =>
            /\ b'.items = b.items
            /\ b'.selectedIndex = b.selectedIndex
            /\ b'.scrollOffset = b.scrollOffset
      ]_vars

\* a query that drops some items was applied to a list with a moved selection
C9_Witness == op.name = "Filter" /\ Len(ret) < N /\ b.selectedIndex > 0 /\ b.scrollOffset > 0

----------------------------------------------------------------------------
(* Properties of the application model *)

\* pane index is the only pane whose Active flag is set, and it is the active index
OnlyActive(mm, index) ==
    /\ mm.activePane = index
    /\ \A i \in 1..Len(mm.panes) : mm.panes[i].active = (i - 1 = index)

\* C10: for every in-bounds index i and every router state, setActivePane(i)
\* makes i the active index, sets Active on pane i and clears it on every
\* other pane.
C10_SetActivePane ==
    \A i \in 0..(Len(m.panes) - 1) : OnlyActive(setActivePane(m, i), i)

\* Before the first resize no render touches the Active flags: pane 2 was made
\* the only active pane by setActivePane(2), after the selection of the
\* Packages pane had been moved while that pane was the active one.
C10_Witness ==
    /\ m.width = 0
    /\ OnlyActive(m, 2)
    /\ m.panes[2].selectedIndex > 0

\* C11: in every state of the router, from NewModel onward, exactly one pane
\* has its Active flag set and it is the pane at the router's active index.
C11_ExactlyOneActive == OnlyActive(m, m.activePane)

RECURSIVE NextPaneTimes(_, _)
\* the router after n consecutive nextPane calls
NextPaneTimes(mm, n) == IF n = 0 THEN mm ELSE NextPaneTimes(nextPane(mm), n - 1)

\* C12: with P panes and the active index at i, nextPane makes the active index
\* (i + 1) mod P and prevPane (i - 1 + P) mod P, each making that pane the
\* only active one; prevPane after nextPane, and nextPane after prevPane, give
\* back i, and so do P consecutive nextPane calls.
C12_NextPrevPane ==
    LET P == Len(m.panes)
        i == m.activePane
    IN  /\ OnlyActive(nextPane(m), (i + 1) % P)
        /\ OnlyActive(prevPane(m), (i - 1 + P) % P)
        /\ OnlyActive(prevPane(nextPane(m)), i)
        /\ OnlyActive(nextPane(prevPane(m)), i)
        /\ OnlyActive(NextPaneTimes(m, P), i)

\* The last pane is the active one with the focus on the panes, so that
\* nextPane wraps to pane 0, and prevPane from there wraps back.
C12_Witness ==
    /\ started
    /\ m.focus = FocusLeftPanes
    /\ OnlyActive(m, Len(m.panes) - 1)
    /\ nextPane(m).activePane = 0

\* the keys the router matches as global commands: quit, next and previous
\* pane, direct selection by digit, refresh-all, toggle focus
GlobalKeys == {"q", "tab", "shift+tab", "1", "2", "3", "4", "ctrl+r", " "}

\* C13: a key event that matches a global command of the router is handled by
\* the router only; Update invokes no pane's Update for it.
C13_GlobalKeysNotForwarded ==
    started => \A key \in GlobalKeys : Update(m, KeyMsg(key)).forwarded = {}

\* the event loop is dispatching events: the program has started and has not
\* been told to quit
Running == started /\ ~m.quitting

\* the router after the runtime has dispatched the key and rendered
AfterKey(key) == CHOOSE after \in {View(updated) : updated \in {Update(m, KeyMsg(key)).m}} : TRUE

\* the panes backed by a list of several items: Workspace, Packages, Pull Requests
ListPanes == {0, 1, 2}

\* focus is on the panes and the active pane is a list pane with its Active
\* flag set and more than one item
ListPaneFocused ==
    /\ Running
    /\ m.focus = FocusLeftPanes
    /\ m.activePane \in ListPanes
    /\ m.panes[m.activePane + 1].active
    /\ Len(m.panes[m.activePane + 1].items) > 1

\* C14: while events are dispatched, with focus on the panes and an active list pane of N > 1 items whose
\* Active flag is set, the key j or down moves that pane's selectedIndex from
\* s to (s + 1) mod N, and the key k or up to (s - 1 + N) mod N.
C14_VerticalKeysMoveSelection ==
    ListPaneFocused =>
        LET a == m.activePane + 1
            n == Len(m.panes[a].items)
            s == m.panes[a].selectedIndex
        IN  /\ \A key \in {"j", "down"} :
                  AfterKey(key).panes[a].selectedIndex = (s + 1) % n
            /\ \A key \in {"k", "up"} :
                  AfterKey(key).panes[a].selectedIndex = (s - 1 + n) % n

\* The Workspace pane is active with its last item selected, which only j or
\* k keys can have done, and the next j wraps to the first item.
C14_Witness ==
    /\ ListPaneFocused
    /\ m.activePane = 0
    /\ m.panes[1].selectedIndex = Len(m.panes[1].items) - 1
    /\ AfterKey("j").panes[1].selectedIndex = 0
    /\ AfterKey("k").panes[1].selectedIndex = Len(m.panes[1].items) - 2

\* every key of the event loop, and the aliases the handlers match
AllKeys == Keys \cup {"ctrl+c", "down", "up"}

\* the list state of every pane and the active index are the same in both
SamePaneLists(m1, m2) ==
    /\ m1.activePane = m2.activePane
    /\ Len(m1.panes) = Len(m2.panes)
    /\ \A i \in 1..Len(m1.panes) :
          /\ m1.panes[i].items = m2.panes[i].items
          /\ m1.panes[i].selectedIndex = m2.panes[i].selectedIndex
          /\ m1.panes[i].scrollOffset = m2.panes[i].scrollOffset

\* C15: while focus is on the details, no key event dispatched changes any pane's items,
\* selectedIndex or scrollOffset, nor the router's active index.
C15_DetailsFocusFrame ==
    Running /\ m.focus = FocusDetails =>
        \A key \in AllKeys : \A after \in {AfterKey(key)} : SamePaneLists(after, m)

\* Focus is on the details and the detail cursor has been moved off the first
\* line by j or G; the pane keys tab, 2 and j find a pane they would change
\* under pane focus.
C15_Witness ==
    /\ m.focus = FocusDetails
    /\ m.details.selectedLine > 0
    /\ m.activePane = 0
    /\ m.panes[1].active
    /\ AfterKey("j").details.selectedLine # m.details.selectedLine
    /\ AfterKey("tab").activePane = 0

\* the index of the pane that consumes completion messages of the given kind
PaneOf(kind) ==
    CASE kind = "WorkspaceUpdateMsg" -> 0
      [] kind = "PackagesUpdateMsg" -> 1
      [] kind = "PullRequestsUpdateMsg" -> 2

\* the items built from the data a completion message carries
EventItems(kind, t) ==
    CASE kind = "WorkspaceUpdateMsg" -> gatherWorkspaceInfo(t)
      [] kind = "PackagesUpdateMsg" -> gatherPackages
      [] kind = "PullRequestsUpdateMsg" -> gatherPullRequests

\* the router after the runtime has dispatched a completion message and rendered
AfterComplete(mm, kind, t) ==
    CHOOSE after \in {View(updated) : updated \in {Update(mm, UpdateMsg(kind, t)).m}} : TRUE

\* a refresh of the pane of this kind is pending and a different pane is the
\* active one
PendingWhileInactive(kind) ==
    /\ Running
    /\ inflight[kind] > 0
    /\ m.panes[PaneOf(kind) + 1].loading
    /\ m.activePane # PaneOf(kind)
    /\ ~m.panes[PaneOf(kind) + 1].active

\* C16: when the completion message of a refresh of pane P is dispatched while
\* a different pane is active, P's items become the data of the message and
\* P's loading flag false, P's Active flag stays false and the active index
\* is unchanged.
C16_CompletionWhileInactive ==
    \A kind \in CompletionKinds : \A t \in Times(kind) :
        PendingWhileInactive(kind) =>
            \A after \in {AfterComplete(m, kind, t)} :
            LET P == after.panes[PaneOf(kind) + 1]
            IN  /\ P.items = EventItems(kind, t)
                /\ P.loading = FALSE
                /\ P.active = FALSE
                /\ after.activePane = m.activePane

\* The Packages pane was refreshed by the key r while it was the active pane
\* with its second item selected, then the Pull Requests pane became the
\* active one; the completion is still to be dispatched.
C16_Witness ==
    /\ PendingWhileInactive("PackagesUpdateMsg")
    /\ m.panes[2].selectedIndex > 0
    /\ OnlyActive(m, 2)
    /\ ~AfterComplete(m, "PackagesUpdateMsg", 0).panes[2].loading

\* every key some pane or the router matches
PaneKeys ==
    AllKeys \cup {"enter", "h", "left", "l", "right", ".", "a", "u", "d", "c", "R", "v",
                  "s", "e", "f", "t", "ctrl+f", "+", "-"}

\* the panes whose Active flag is false and whose list is the list b: a
\* Packages pane, Files panes and Commits panes with their own fields set
\* either way
InactivePackagesPane == SetActive(b, FALSE)

InactiveFilesPanes ==
    { FilesPaneOf(SetActive(b, FALSE), path, hidden) :
          path \in {".", "src/panes"}, hidden \in BOOLEAN }

InactiveCommitsPanes ==
    { CommitsPaneOf(SetActive(b, FALSE), reflog, limit) :
          reflog \in BOOLEAN, limit \in {25, 50} }

\* C17: a key event passed to the Update of a pane whose Active flag is false
\* leaves every field of the pane unchanged and returns no command.
C17_InactivePaneIgnoresKeys ==
    \A key \in PaneKeys :
        /\ PackagesPaneUpdate(InactivePackagesPane, KeyMsg(key)) =
               [p |-> InactivePackagesPane, cmd |-> Nil]
        /\ \A f \in InactiveFilesPanes :
               FilesPaneUpdate(f, KeyMsg(key)) = [p |-> f, cmd |-> Nil]
        /\ \A c \in InactiveCommitsPanes :
               CommitsPaneUpdate(c, KeyMsg(key)) = [p |-> c, cmd |-> Nil]

\* The list has several items and its selection was moved off the first one;
\* the same keys change the pane when its Active flag is set: j moves the
\* selection, . toggles showHidden, + raises the limit.
C17_Witness ==
    /\ N > 1
    /\ b.selectedIndex > 0
    /\ op.name = "MoveDown"
    /\ ~b.active
    /\ FilesPaneUpdate(FilesPaneOf(SetActive(b, TRUE), ".", FALSE), KeyMsg(".")).p.showHidden
    /\ FilesPaneUpdate(FilesPaneOf(SetActive(b, TRUE), ".", FALSE), KeyMsg("j")).p.selectedIndex
           # b.selectedIndex
    /\ CommitsPaneUpdate(CommitsPaneOf(SetActive(b, TRUE), FALSE, 50), KeyMsg("+")).p.limit = 75

\* C18: in every reachable state, the loading flag of a pane is true whenever
\* at least one refresh of that pane has been requested and its completion
\* message has not been dispatched yet, also when refreshes overlap.
C18_LoadingWhilePending ==
    \A kind \in CompletionKinds :
        inflight[kind] > 0 => m.panes[PaneOf(kind) + 1].loading

\* payloads of the completion messages of the git variant
FilesPayloads ==
    { << >>,
      << [Name |-> "panes", Path |-> "src/panes", IsDir |-> TRUE, Status |-> ""],
         [Name |-> "main.go", Path |-> "src/main.go", IsDir |-> FALSE, Status |-> "modified"],
         [Name |-> "go.mod", Path |-> "src/go.mod", IsDir |-> FALSE, Status |-> ""] >> }

CommitsPayloads ==
    { << >>,
      << [Hash |-> "a1b2c3d4", ShortHash |-> "a1b2c3d", Author |-> "rita",
          Message |-> <<"M", "e", "r", "g", "e", " ", "#", "3">>],
         [Hash |-> "e5f6a7b8", ShortHash |-> "e5f6a7b", Author |-> "miguel",
          Message |-> <<"F", "i", "x">>] >> }

StashPayloads ==
    { << >>,
      << StashPrefix \o <<"0", "}", ":", " ", "W", "I", "P">>, <<"W", "I", "P">> >> }

BranchesPayloads ==
    { << >>,
      << [Name |-> "main", IsCurrent |-> TRUE, IsRemote |-> FALSE],
         [Name |-> "origin/main", IsCurrent |-> FALSE, IsRemote |-> TRUE],
         [Name |-> "dev", IsCurrent |-> FALSE, IsRemote |-> FALSE] >> }

\* the list of the pane at the active index, on which the panes of the git
\* variant are set up
ActiveList == m.panes[m.activePane + 1]

\* consuming the message a second time changes nothing
ConsumedTwice(Consume(_, _), p, msg_) == Consume(Consume(p, msg_), msg_) = Consume(p, msg_)

ConsumeByUpdate(p, msg_) == PaneUpdate(p, msg_).p

\* C19: a pane that consumes the same refresh completion message twice in a
\* row is in the state it reached after consuming it once: same items in the
\* same order, same selectedIndex, scrollOffset and loading flag.
C19_CompletionIdempotent ==
    /\ \A kind \in CompletionKinds : \A t \in RefreshTimes(kind) :
          ConsumedTwice(ConsumeByUpdate, m.panes[PaneOf(kind) + 1], UpdateMsg(kind, t))
    /\    /\ \A files \in FilesPayloads : \A path \in {".", "src"} :
                ConsumedTwice(updateFromFilesMsg, FilesPaneOf(ActiveList, path, FALSE),
                              [type |-> "FilesUpdateMsg", Files |-> files, Path |-> path])
          /\ \A commits \in CommitsPayloads :
                ConsumedTwice(updateFromCommitsMsg, CommitsPaneOf(ActiveList, FALSE, 50),
                              [type |-> "CommitsUpdateMsg", Commits |-> commits])
          /\ \A stashes \in StashPayloads :
                ConsumedTwice(updateFromStashMsg, ActiveList,
                              [type |-> "StashUpdateMsg", Stashes |-> stashes])
          /\ \A branches \in BranchesPayloads : \A showRemote \in BOOLEAN :
                ConsumedTwice(updateFromBranchesMsg,
                              BranchesPaneOf(ActiveList, showRemote, FALSE),
                              [type |-> "BranchesUpdateMsg", Branches |-> branches])

\* The Pull Requests pane is loading with its second item selected and its
\* completion message pending: consuming the message once changes the pane.
C19_Witness ==
    /\ inflight["PullRequestsUpdateMsg"] > 0
    /\ m.panes[3].loading
    /\ m.panes[3].selectedIndex > 0
    /\ ConsumeByUpdate(m.panes[3], UpdateMsg("PullRequestsUpdateMsg", 0)) # m.panes[3]
    /\ Len(updateFromStashMsg(m.panes[3],
                              [type |-> "StashUpdateMsg",
                               Stashes |-> <<StashPrefix \o <<"0", "}">>, <<"W">> >>]).items) = 2

\* the router after two completion messages of one kind, carrying the clock
\* readings t1 and t2, have been dispatched in that order, with the keys of
\* between (a sequence) dispatched after the first of them
RECURSIVE AfterKeys(_, _)
AfterKeys(mm, keys) ==
    IF keys = << >> THEN mm
    ELSE AfterKeys(View(Update(mm, KeyMsg(Head(keys))).m), Tail(keys))

AfterBoth(kind, t1, between, t2) ==
    AfterComplete(AfterKeys(AfterComplete(m, kind, t1), between), kind, t2)

\* C20: when two refreshes of one pane overlap, then after both completion
\* messages have been consumed, in either order, the pane's items are those
\* built from the message consumed last and its loading flag is false.
C20_LastCompletionWins ==
    /\ \A kind \in CompletionKinds :
          inflight[kind] >= 2 =>
              \A t1 \in RefreshTimes(kind), t2 \in RefreshTimes(kind) :
              \A between \in {<< >>, <<"tab">>} :
              \A afterFirst \in {AfterComplete(m, kind, t1)} :
              \A afterKeys \in {AfterKeys(afterFirst, between)} :
              \A afterBoth \in {AfterComplete(afterKeys, kind, t2)} :
                  /\ afterBoth.panes[PaneOf(kind) + 1].items = EventItems(kind, t2)
                  /\ ~afterBoth.panes[PaneOf(kind) + 1].loading
    /\ \A first \in CommitsPayloads, last \in CommitsPayloads :
          LET c == CommitsRefresh(CommitsRefresh(CommitsPaneOf(ActiveList, FALSE, 50)).p).p
              done == updateFromCommitsMsg(
                          updateFromCommitsMsg(c, [type |-> "CommitsUpdateMsg", Commits |-> first]),
                          [type |-> "CommitsUpdateMsg", Commits |-> last])
          IN  /\ done.items = [k \in 1..Len(last) |-> CommitItem(last[k])]
              /\ ~done.loading

\* Two refreshes of the Workspace pane are in flight and their completion
\* messages carry different clock readings, so the two orders of consuming
\* them leave different items.
C20_Witness ==
    /\ inflight["WorkspaceUpdateMsg"] = 2
    /\ m.panes[1].loading
    /\ AfterBoth("WorkspaceUpdateMsg", 0, << >>, 1).panes[1].items
          # AfterBoth("WorkspaceUpdateMsg", 1, << >>, 0).panes[1].items

\* the panes that have a refresh operation: all but the Greeting pane
RefreshingPanes == {PaneOf(kind) : kind \in CompletionKinds}

\* the number of commands in cmd that produce a message of the given kind
Queued(cmd, kind) == Cardinality({i \in 1..Len(cmd) : cmd[i] = kind})

\* C21: after a ctrl+r key event every pane that has a refresh operation is
\* loading, active or not, and the command returned holds exactly one pending
\* completion per such pane and nothing else.
C21_RefreshAll ==
    Running =>
        \A r \in {Update(m, KeyMsg("ctrl+r"))} :
        \A after \in {View(r.m)} :
            /\ \A i \in RefreshingPanes : after.panes[i + 1].loading
            /\ \A kind \in CompletionKinds : Queued(r.cmd, kind) = 1
            /\ Len(r.cmd) = Cardinality(CompletionKinds)
            /\ r.forwarded = {}

\* Nothing is loading or in flight and the Greeting pane, which has no refresh,
\* is the active one: ctrl+r then sets loading on the three inactive panes.
C21_Witness ==
    /\ Running
    /\ OnlyActive(m, 3)
    /\ \A kind \in CompletionKinds : inflight[kind] = 0
    /\ \A i \in 1..Len(m.panes) : ~m.panes[i].loading
    /\ Update(m, KeyMsg("ctrl+r")).m.panes[2].loading

\* C22 as stated: under fair delivery of completion messages every pane that
\* is loading is eventually not loading, whatever keys are interleaved.  A
\* quit key ends event processing with the completions still in flight.
C22_LoadingLeadsToIdle ==
    \A i \in 1..4 : m.panes[i].loading ~> ~m.panes[i].loading

\* C22: under fair delivery of completion messages every pane that is loading
\* is eventually not loading, whatever keys are interleaved, unless the program
\* is told to quit first.
C22_LoadingLeadsToIdleOrQuit ==
    \A i \in 1..4 : m.panes[i].loading ~> (~m.panes[i].loading \/ m.quitting)

\* Keys have requested a refresh of the Packages pane again while one was in
\* flight and have made another pane the active one: it is loading with two
\* completions to come.
C22_Witness ==
    /\ Running
    /\ m.panes[2].loading
    /\ m.activePane # 1
    /\ inflight["PackagesUpdateMsg"] = 2

\* the events that are not key events: resizes, completions, errors and
\* completed actions
OtherEvents ==
    {WindowSizeMsg(size[1], size[2]) : size \in TerminalSizes}
        \cup {UpdateMsg(kind, t) : kind \in CompletionKinds, t \in ClockReadings}
        \cup {ErrorMsg, ActionCompleteMsg}

QuitKeys == {"q", "ctrl+c"}

C25_StatusBarRenders ==
    /\ ~panicked
    /\ \A i \in 1..Len(ret) : ~ret[i].panics /\ 0 <= ret[i].high

\* the placeholder line of the details
Placeholder == << <<"Select an item to see details">> >>

\* the summary of an item of the pane with the given title
Summary(title, item) ==
    << <<"Selected Item Details:">>,
       <<"">>,
       <<"Name: ", item.Display>>,
       <<"Value: ", item.Value>>,
       <<"Type: ", item.Type>>,
       <<"">>,
       <<"From: ", title, " pane">> >>

\* the detail lines as a function of a pane and nothing else: the placeholder
\* when its selectedIndex is not the index of an item, the summary of the item
\* at selectedIndex otherwise
DetailLinesOf(p) ==
    IF p.selectedIndex >= 0 /\ p.selectedIndex < Len(p.items)
    THEN Summary(p.title, p.items[p.selectedIndex + 1])
    ELSE Placeholder

\* the model has a size and is not quitting: View renders
Rendering(mm) == ~mm.quitting /\ mm.width # 0 /\ mm.height # 0

\* C26: after every render with non-zero terminal dimensions the detail lines
\* are determined by the active pane and its selected item alone: the summary
\* of the selected item, and the placeholder exactly when the active pane has
\* no selected item -- also for the frame after any key or completion event,
\* and for a frame rendered while the active pane's list is empty.
C26_DetailLines ==
    started /\ Rendering(m) =>
        /\ m.details.lines = DetailLinesOf(m.panes[m.activePane + 1])
        /\ m.details.lines # Placeholder
        /\ \A key \in AllKeys \ QuitKeys :
               \A after \in {AfterKey(key)} :
                   after.details.lines = DetailLinesOf(after.panes[after.activePane + 1])
        /\ \A kind \in CompletionKinds :
               \A after \in {AfterComplete(m, kind, 0)} :
                   after.details.lines = DetailLinesOf(after.panes[after.activePane + 1])
        /\ \A after \in {View([m EXCEPT !.panes[m.activePane + 1] = Clear(@)])} :
               after.details.lines = Placeholder

\* A key has moved the selection of the active Packages pane to its second
\* item while the detail view was scrolled, and the details show that item.
C26_Witness ==
    /\ started /\ Rendering(m)
    /\ m.activePane = 1
    /\ m.panes[2].selectedIndex = 1
    /\ m.details.lines[3] = <<"Name: ", m.panes[2].items[2].Display>>
    /\ m.details.lines # AfterKey("j").details.lines

\* C27: MoveToTop sets selectedIndex = 0 and scrollOffset = 0 on any list and
\* keeps the items; MoveToBottom on a list of N > 0 items sets selectedIndex =
\* N - 1 with the last item the last of the visible items, and on an empty
\* list changes nothing.
C27_MoveToTopAndBottom ==
    [][ /\ op'.name = "MoveToTop" =>
            /\ b'.selectedIndex = 0
            /\ b'.scrollOffset = 0
            /\ b'.items = b.items
        /\ op'.name = "MoveToBottom" =>
            IF N > 0
            THEN /\ b'.selectedIndex = N - 1
                 /\ b'.items = b.items
                 /\ InWindow(b')
                 /\ \E visible \in {GetVisibleItems(b')} :
                        /\ Len(visible) > 0
                        /\ visible[Len(visible)] = b.items[N]
            ELSE b' = b
      ]_vars

\* MoveToBottom on a list longer than its window, which was showing the top,
\* has scrolled the window to the last items
C27_Witness ==
    /\ op.name = "MoveToBottom"
    /\ N > b.maxDisplayItems
    /\ b.selectedIndex = N - 1
    /\ b.scrollOffset = N - b.maxDisplayItems
    /\ MoveToTop(b).scrollOffset = 0

\* C28: after SetMaxDisplayItems(w) with w >= 1 on a non-empty list the
\* selected item is inside the visible window:
\* scrollOffset <= selectedIndex <= scrollOffset + w - 1.
C28_ResizedWindowHoldsSelection ==
    [][ (op'.name = "SetMaxDisplayItems" /\ op'.index >= 1 /\ N > 0) =>
            /\ b'.maxDisplayItems = op'.index
            /\ InWindow(b')
      ]_vars

\* the item a BranchesPane builds from one git.Branch
BranchItem(branch) ==
    PaneItem(branch.Name, branch.Name,
             IF branch.IsRemote THEN "remote"
             ELSE IF branch.IsCurrent THEN "current" ELSE "local")

\* one item per record of the payload, in payload order
Built(Item(_), payload) == [i \in 1..Len(payload) |-> Item(payload[i])]

BuiltStashes(stashes) == [i \in 1..Len(stashes) |-> StashItem(i - 1, stashes[i])]

\* the pane shows the given items with the first one selected and the window
\* at the top
FreshList(p, items) == p.items = items /\ p.selectedIndex = 0 /\ p.scrollOffset = 0

\* the panes of the router consume their completion message as C29 says
RouterPanesRebuilt ==
    \A kind \in CompletionKinds : \A t \in ClockReadings :
        \A after \in {AfterComplete(m, kind, t)} :
            FreshList(after.panes[PaneOf(kind) + 1], EventItems(kind, t))

CommitsPaneRebuilt ==
    \A commits \in CommitsPayloads :
        FreshList(updateFromCommitsMsg(CommitsPaneOf(ActiveList, FALSE, 50),
                                       [type |-> "CommitsUpdateMsg", Commits |-> commits]),
                  Built(CommitItem, commits))

FilesPaths == {".", "src"}

\* C29 as stated, for every pane: after a pane has consumed a refresh
\* completion message its items are exactly the items built from the records
\* of the payload, in payload order, with selectedIndex = 0 and scrollOffset =
\* 0.  The Files, Branches and Stash panes of the git variant do otherwise.
C29_ItemsArePayload ==
    Running =>
        /\ RouterPanesRebuilt
        /\ CommitsPaneRebuilt
        /\ \A files \in FilesPayloads : \A path \in FilesPaths :
              FreshList(updateFromFilesMsg(FilesPaneOf(ActiveList, path, FALSE),
                                           [type |-> "FilesUpdateMsg", Files |-> files,
                                            Path |-> path]),
                        Built(FileItem, files))
        /\ \A branches \in BranchesPayloads : \A showRemote \in BOOLEAN :
              FreshList(updateFromBranchesMsg(BranchesPaneOf(ActiveList, showRemote, FALSE),
                                              [type |-> "BranchesUpdateMsg",
                                               Branches |-> branches]),
                        Built(BranchItem, branches))
        /\ \A stashes \in StashPayloads :
              FreshList(updateFromStashMsg(ActiveList,
                                           [type |-> "StashUpdateMsg", Stashes |-> stashes]),
                        BuiltStashes(stashes))

\* C29: after a pane has consumed a refresh completion message no item from
\* before remains, selectedIndex = 0 and scrollOffset = 0, and its items are
\* those built from the records of the payload, in payload order for the
\* Workspace, Packages, Pull Requests and Commits panes; the Files pane puts
\* the entry "../" first unless its current path is ".", the Branches pane
\* lists the local branches before the remote ones and leaves the remote ones
\* out when showRemote is off, and the Stash pane shows one placeholder item
\* for an empty payload.
C29_ItemsRebuiltFromPayload ==
    Running =>
        /\ RouterPanesRebuilt
        /\ CommitsPaneRebuilt
        /\ \A files \in FilesPayloads : \A path \in FilesPaths :
              FreshList(updateFromFilesMsg(FilesPaneOf(ActiveList, path, FALSE),
                                           [type |-> "FilesUpdateMsg", Files |-> files,
                                            Path |-> path]),
                        (IF path = "." THEN << >>
                         ELSE << PaneItem("../", "..", "directory") >>)
                            \o Built(FileItem, files))
        /\ \A branches \in BranchesPayloads : \A showRemote \in BOOLEAN :
              FreshList(updateFromBranchesMsg(BranchesPaneOf(ActiveList, showRemote, FALSE),
                                              [type |-> "BranchesUpdateMsg",
                                               Branches |-> branches]),
                        Built(BranchItem, SelectSeq(branches, IsLocalBranch))
                            \o (IF showRemote
                                THEN Built(BranchItem, SelectSeq(branches, IsRemoteBranch))
                                ELSE << >>))
        /\ \A stashes \in StashPayloads :
              FreshList(updateFromStashMsg(ActiveList,
                                           [type |-> "StashUpdateMsg", Stashes |-> stashes]),
                        IF stashes = << >>
                        THEN << PaneItem("No stashed changes", "", "empty") >>
                        ELSE BuiltStashes(stashes))

\* The refresh of the Packages pane completes while its second item is
\* selected: the pane is rebuilt with the first item selected.
C29_Witness ==
    /\ Running
    /\ inflight["PackagesUpdateMsg"] > 0
    /\ m.panes[2].selectedIndex = 1
    /\ m.activePane = 1
    /\ AfterComplete(m, "PackagesUpdateMsg", 0).panes[2].selectedIndex = 0
    /\ AfterComplete(m, "PackagesUpdateMsg", 0).panes[2].items = gatherPackages

\* the completion messages of the git variant, with some payload each
GitCompletions ==
    { [type |-> "StatusUpdateMsg"],
      [type |-> "FilesUpdateMsg", Files |-> << >>, Path |-> "."],
      [type |-> "CommitsUpdateMsg", Commits |-> << >>],
      [type |-> "BranchesUpdateMsg", Branches |-> << >>],
      [type |-> "StashUpdateMsg", Stashes |-> << >>],
      [type |-> "DiffUpdateMsg"] }

\* C30: Update hands a completion message to every pane, and every pane but
\* the one that requests refreshes of that kind is left exactly as it was:
\* items, selectedIndex, scrollOffset, loading and Active flag, also after the
\* render that follows.  Likewise a FilesPane and a CommitsPane leave every
\* completion message of another pane alone.
C30_OnlyOwnerConsumes ==
    Running =>
        /\ \A kind \in CompletionKinds : \A t \in ClockReadings :
              \A r \in {Update(m, UpdateMsg(kind, t))} :
              \A after \in {View(r.m)} :
                  /\ r.forwarded = 0..(Len(m.panes) - 1)
                  /\ after.activePane = m.activePane
                  /\ \A i \in 1..Len(m.panes) :
                        i # PaneOf(kind) + 1 => r.m.panes[i] = m.panes[i] /\ after.panes[i] = m.panes[i]
        /\ \A msg_ \in GitCompletions : \A f \in {FilesPaneOf(ActiveList, "src", FALSE)} :
              msg_.type # "FilesUpdateMsg" => FilesPaneUpdate(f, msg_) = [p |-> f, cmd |-> Nil]
        /\ \A msg_ \in GitCompletions : \A c \in {CommitsPaneOf(ActiveList, FALSE, 50)} :
              msg_.type # "CommitsUpdateMsg" => CommitsPaneUpdate(c, msg_) = [p |-> c, cmd |-> Nil]

\* The completion of the Workspace refresh arrives while the Pull Requests
\* pane is the active one, is loading and has its second item selected: the
\* Workspace pane changes and the Pull Requests pane does not.
C30_Witness ==
    /\ Running
    /\ m.width > 0
    /\ inflight["WorkspaceUpdateMsg"] > 0
    /\ m.activePane = 2
    /\ m.panes[3].loading
    /\ m.panes[3].selectedIndex = 1
    /\ m.panes[1].loading
    /\ AfterComplete(m, "WorkspaceUpdateMsg", 0).panes[1] # m.panes[1]
    /\ AfterComplete(m, "WorkspaceUpdateMsg", 0).panes[3] = m.panes[3]

----------------------------------------------------------------------------
(* Properties of the git variant's event loop *)

RefreshKinds ==
    { "StatusUpdateMsg", "FilesUpdateMsg", "BranchesUpdateMsg", "CommitsUpdateMsg",
      "StashUpdateMsg" }

\* C24: the message a pane's refresh produces is the one the pane's state at
\* the moment of the request determines: whatever the event loop does to the
\* pane while the work is in flight, the work reads none of it.
C24_ContentFixedAtRequest ==
    \A y \in BagToSet(inflight.mail) :
        y.cmd \in RefreshKinds => y.msg \in y.want

----------------------------------------------------------------------------
(* Further properties of the list model *)

\* C38: on a non-empty list MoveDown followed by MoveUp, and MoveUp followed
\* by MoveDown, each give back the selectedIndex they started from, from
\* every index including the first and the last.
C38_MoveDownMoveUpInverse ==
    N > 0 =>
        /\ \A down \in {MoveDown(b)} : MoveUp(down).selectedIndex = b.selectedIndex
        /\ \A up \in {MoveUp(b)} : MoveDown(up).selectedIndex = b.selectedIndex

\* the selection is on the last of three or more items after a MoveUp from
\* the first: MoveDown wraps to the first and MoveUp wraps back
C38_Witness ==
    /\ op.name = "MoveUp"
    /\ N >= 3
    /\ b.selectedIndex = N - 1
    /\ MoveDown(b).selectedIndex = 0
    /\ MoveUp(MoveDown(b)).selectedIndex = N - 1

\* C39: with a fixed window size W >= 1, after any sequence of MoveUp,
\* MoveDown, MoveToTop, MoveToBottom, SelectItem, AddItem, RemoveItem and
\* Clear, GetVisibleItems returns exactly min(W, N) items: the window is never
\* partly empty while items above it are hidden.
C39_WindowIsFull ==
    (~panicked /\ b.maxDisplayItems >= 1) =>
        Len(GetVisibleItems(b)) = Min(b.maxDisplayItems, N)

----------------------------------------------------------------------------
(* Properties of focus and of the details view *)

\* C31: a space key toggles focus between the panes and the details and is
\* forwarded to no pane; entering the details sets the detail cursor and the
\* detail scroll position to 0; a second space restores the focus, with the
\* active index and every pane as they were.
C31_SpaceTogglesFocus ==
    Running =>
        \A r \in {Update(m, KeyMsg(" "))} :
            /\ r.forwarded = {}
            /\ r.cmd = Nil
            /\ r.m.focus = IF m.focus = FocusLeftPanes THEN FocusDetails ELSE FocusLeftPanes
            /\ r.m.panes = m.panes
            /\ r.m.activePane = m.activePane
            /\ r.m.focus = FocusDetails =>
                   r.m.details.selectedLine = 0 /\ r.m.details.scrollPos = 0
            /\ \A once \in {View(r.m)} :
                   \A twice \in {View(Update(once, KeyMsg(" ")).m)} :
                       /\ twice.focus = m.focus
                       /\ twice.activePane = m.activePane
                       /\ twice.panes = m.panes

\* focus is on the panes with the details scrolled down, and the space key
\* enters the details at their top
C31_Witness ==
    /\ Running
    /\ m.focus = FocusLeftPanes
    /\ m.details.scrollPos > 0
    /\ m.details.selectedLine > 0
    /\ AfterKey(" ").focus = FocusDetails
    /\ AfterKey(" ").details.scrollPos = 0
    /\ AfterKey(" ").details.selectedLine = 0

\* the keys that move the detail cursor
CursorKeys == {"j", "k", "g", "G"}

\* C32: while focus is on the details, after every j / k / g / G key the
\* detail cursor satisfies 0 <= scrollPos <= selectedLine <= scrollPos +
\* max(1, height - 5) - 1, and selectedLine <= len(lines) - 1 when there are
\* lines; j on the last line and k on the first leave the cursor where it is.
C32_DetailCursorInWindow ==
    (Running /\ m.focus = FocusDetails) =>
        \A key \in CursorKeys :
            \A after \in {AfterKey(key)} :
                /\ 0 <= after.details.scrollPos
                /\ after.details.scrollPos <= after.details.selectedLine
                /\ after.details.selectedLine
                       <= after.details.scrollPos + Max(1, after.height - 5) - 1
                /\ Len(after.details.lines) > 0 =>
                       after.details.selectedLine <= Len(after.details.lines) - 1
                /\ (key = "j" /\ Len(m.details.lines) > 0) =>
                       after.details.selectedLine =
                           IF m.details.selectedLine = Len(m.details.lines) - 1
                           THEN m.details.selectedLine
                           ELSE m.details.selectedLine + 1
                /\ key = "k" =>
                       after.details.selectedLine =
                           IF m.details.selectedLine = 0 THEN 0
                           ELSE m.details.selectedLine - 1

\* the cursor is on the last of seven detail lines in a three-line window
\* that has scrolled with it, and j leaves it there
C32_Witness ==
    /\ Running
    /\ m.focus = FocusDetails
    /\ m.height = 8
    /\ Len(m.details.lines) = 7
    /\ m.details.selectedLine = 6
    /\ m.details.scrollPos = 4
    /\ AfterKey("j").details.selectedLine = 6

\* C34: whenever there are detail lines, the detail scroll position is an
\* index into them, 0 <= scrollPos <= len(lines) - 1, also after the active
\* pane or its selection changed or the terminal was resized.
C34_ScrollPosIsAnIndex ==
    (Running /\ Len(m.details.lines) > 0) =>
        /\ 0 <= m.details.scrollPos
        /\ m.details.scrollPos <= Len(m.details.lines) - 1

----------------------------------------------------------------------------
(* Properties of the rendered layout *)

\* C33: for every terminal height >= 1, every detail scroll position and
\* every detail content, the render of the scrollable details takes a slice
\* lines[start:end] with 0 <= start <= end <= len(lines): no render ends in a
\* panic.
C33_DetailSliceInRange ==
    /\ ~panicked
    /\ \A i \in 1..Len(ret) :
           ret[i].right.content.sliced =>
               /\ 0 <= ret[i].right.content.start
               /\ ret[i].right.content.start <= ret[i].right.content.end
               /\ ret[i].right.content.end <= ret[i].right.content.n

\* C35: whenever focus is on the details, the right column of the frame is
\* the details view, drawn as the active view, whichever pane is active.
C35_FocusedDetailsAreShown ==
    \A i \in 1..Len(ret) :
        ret[i].focus = FocusDetails =>
            /\ ret[i].right.view = "details"
            /\ ret[i].right.isActive

\* C36: in every frame the panes of the left column and the pane of the right
\* column, if it shows one, are different panes.
C36_ColumnsAreDisjoint ==
    \A i \in 1..Len(ret) :
        ret[i].right.view = "pane" =>
            \A k \in 1..Len(ret[i].left) : ret[i].left[k].index # ret[i].right.index

----------------------------------------------------------------------------
(* Properties of the Files pane under concurrent refreshes *)

\* C37: whenever no refresh of the Files pane is in flight (every FilesUpdateMsg
\* requested has been consumed), the entries the pane lists are the listing of
\* its current directory: the Path of the last FilesUpdateMsg consumed is the
\* pane's currentPath.
C37_ListingIsOfCurrentPath ==
    ( /\ started /\ ~m.quitting
      /\ InFlightOf(inflight, "FilesUpdateMsg") = 0
      /\ ret # << >> )
    => /\ ret[1] = m.panes[2].currentPath
       /\ m.panes[2].items
            = updateFromFilesMsg(m.panes[2], FilesUpdateMsg(m.panes[2])).items

====
